---- MODULE Spec2Model ----
(***************************************************************************)
(* PropertyGraphViewer: the read-only query server of client/server/       *)
(* index.ts (GET /functions, GET /function/graph, GET /source) over a      *)
(* SQLite store with the tables nodes, edges and sources, and the client   *)
(* of client/src: the App component with its reducer, and the Graph        *)
(* component.                                                              *)
(*                                                                         *)
(* Strings are sequences of code points.  A nullable column is a sequence  *)
(* of length at most one: <<>> is SQL NULL, <<v>> is the value v.          *)
(***************************************************************************)
EXTENDS Integers, Sequences, FiniteSets, TLC

VARIABLES
    nodes,      \* table nodes, in rowid order
    edges,      \* table edges, in rowid order
    sources,    \* table sources, in rowid order
    req,        \* the request handled last: [op, raw]
    resp,       \* the reply sent for it
    issued,     \* the statements run against the store for it, in order
    app,        \* the state of the App component's reducer
    refs,       \* App's refs: the debounce timer and the two abort controllers
    timers,     \* the pending timers of handleSearchChange
    calls,      \* the requests awaited by App's handlers, in order of issue
    surface,    \* the Graph component: its elements and its pending update
    mounted     \* App is mounted

server == <<nodes, edges, sources, req, resp, issued>>

client == <<app, refs, timers, calls, surface, mounted>>

vars == <<nodes, edges, sources, req, resp, issued, app, refs, timers, calls, surface, mounted>>

(***************************************************************************)
(* Characters                                                              *)
(***************************************************************************)

\* Code points of the characters the model writes literally.
ch ==
    [ a |-> 97, b |-> 98, c |-> 99, d |-> 100, e |-> 101, f |-> 102,
      l |-> 108, r |-> 114, t |-> 116, x |-> 120, y |-> 121,
      A |-> 65, B |-> 66,
      d0 |-> 48, d1 |-> 49, d2 |-> 50, d5 |-> 53, d6 |-> 54,
      colon |-> 58, underscore |-> 95, slash |-> 47, at |-> 64, dot |-> 46,
      hyphen |-> 45, percent |-> 37, backslash |-> 92, star |-> 42,
      space |-> 32, lf |-> 10, tab |-> 9, soh |-> 1, del |-> 127,
      lt |-> 60, semicolon |-> 59, nbsp |-> 160 ]

NULL == <<>>

Some(v) == <<v>>

\* const initialState: AppState
initialState ==
    [searchQuery |-> <<>>, functions |-> <<>>, selectedFunctionId |-> NULL,
     graphData |-> NULL, sourceData |-> NULL,
     loading |-> [functions |-> FALSE, graph |-> FALSE, source |-> FALSE],
     errors |-> [functions |-> NULL, graph |-> NULL, source |-> NULL]]

\* The refs of App as useRef(null) makes them.
NoRefs == [debounceTimer |-> NULL, graphAbortController |-> NULL,
           sourceAbortController |-> NULL]

\* The Graph component while App does not render it: no cytoscape instance,
\* no elements, no update pending.
NoSurface == [shown |-> FALSE, pending |-> FALSE, nodes |-> <<>>, edges |-> <<>>]

\* The client after App is mounted and before any event.
ClientAtRest ==
    /\ app = initialState
    /\ refs = NoRefs
    /\ timers = {}
    /\ calls = <<>>
    /\ surface = NoSurface
    /\ mounted = TRUE

\* JavaScript truthiness of a nullable INTEGER column read through
\* better-sqlite3: null and 0 are falsy.
TruthyNum(col) == col # NULL /\ col[1] # 0

\* JavaScript truthiness of a nullable TEXT column: null and '' are falsy.
TruthyText(col) == col # NULL /\ col[1] # <<>>

\* The characters String.prototype.trim removes (WhiteSpace and
\* LineTerminator of ECMAScript).
IsTrimmed(c) ==
    \/ c \in {9, 10, 11, 12, 13, 32, 160, 5760, 8232, 8233, 8239, 8287, 12288, 65279}
    \/ c \in 8192..8202

\* /[\x00-\x08\x0B-\x0C\x0E-\x1F\x7F]/
IsControl(c) == c \in (0..8) \cup (11..12) \cup (14..31) \cup {127}

\* IsIdChar with '*' added to the class.
IsIdChar_WithStar(c) ==
    \/ c \in 97..122
    \/ c \in 65..90
    \/ c \in 48..57
    \/ c \in {58, 95, 47, 64, 46, 45, 42}

\* One character of /^[a-zA-Z0-9:_/@.\-]+$/
IsIdChar(c) ==
    \/ c \in 97..122
    \/ c \in 65..90
    \/ c \in 48..57
    \/ c \in {58, 95, 47, 64, 46, 45}

RECURSIVE TrimStart(_)
TrimStart(s) ==
    IF s # <<>> /\ IsTrimmed(Head(s)) THEN TrimStart(Tail(s)) ELSE s

RECURSIVE TrimEnd(_)
TrimEnd(s) ==
    IF s # <<>> /\ IsTrimmed(s[Len(s)]) THEN TrimEnd(SubSeq(s, 1, Len(s) - 1)) ELSE s

\* String.prototype.trim
Trim(s) == TrimEnd(TrimStart(s))

\* s.replace(/[\x00-\x08\x0B-\x0C\x0E-\x1F\x7F]/g, '')
StripControl(s) == SelectSeq(s, LAMBDA c : ~IsControl(c))

\* 'a'.repeat(n)
Pad(n) == [i \in 1..n |-> ch.a]

\* s.startsWith(p)
StartsWith(s, p) == Len(s) >= Len(p) /\ SubSeq(s, 1, Len(p)) = p

\* The first position from i on at which s holds a character of the set
\* stops, or Len(s) + 1 when it holds none.
FirstFrom(s, i, stops) ==
    IF \E k \in i..Len(s) : s[k] \in stops
    THEN CHOOSE k \in i..Len(s) : s[k] \in stops /\ \A j \in i..(k - 1) : s[j] \notin stops
    ELSE Len(s) + 1

\* Binary (memcmp) order of two strings, SQLite's default collation.
RECURSIVE StrLess(_, _)
StrLess(s, u) ==
    IF u = <<>> THEN FALSE
    ELSE IF s = <<>> THEN TRUE
    ELSE IF Head(s) # Head(u) THEN Head(s) < Head(u)
    ELSE StrLess(Tail(s), Tail(u))

\* Order of two nullable text columns under ORDER BY ... ASC: NULL first.
ColLess(p, q) ==
    IF q = NULL THEN FALSE
    ELSE IF p = NULL THEN TRUE
    ELSE StrLess(p[1], q[1])

(***************************************************************************)
(* decodeURIComponent                                                      *)
(***************************************************************************)

IsHexDigit(c) == c \in (48..57) \cup (65..70) \cup (97..102)

HexVal(c) ==
    IF c \in 48..57 THEN c - 48
    ELSE IF c \in 65..70 THEN c - 55
    ELSE c - 87

\* The octet written %XY at position i of s, or -1 when no escape is there.
OctetAt(s, i) ==
    IF i + 2 <= Len(s) /\ s[i] = ch.percent /\ IsHexDigit(s[i + 1]) /\ IsHexDigit(s[i + 2])
    THEN 16 * HexVal(s[i + 1]) + HexVal(s[i + 2])
    ELSE -1

\* Number of octets of the UTF-8 sequence a lead octet starts; 0 for an
\* octet that cannot lead.
Utf8Length(o) ==
    IF o < 128 THEN 1
    ELSE IF o \in 194..223 THEN 2
    ELSE IF o \in 224..239 THEN 3
    ELSE IF o \in 240..244 THEN 4
    ELSE 0

IsContinuation(o) == o \in 128..191

\* The code point of a UTF-8 sequence of n octets o0..o3, or -1 when it is
\* not well formed.
Utf8Of(n, o0, o1, o2, o3) ==
    LET cp == CASE n = 1 -> o0
                [] n = 2 -> (o0 - 192) * 64 + (o1 - 128)
                [] n = 3 -> (o0 - 224) * 4096 + (o1 - 128) * 64 + (o2 - 128)
                [] n = 4 -> (o0 - 240) * 262144 + (o1 - 128) * 4096
                            + (o2 - 128) * 64 + (o3 - 128)
                [] OTHER -> -1
        wellFormed ==
            /\ n >= 2 => IsContinuation(o1)
            /\ n >= 3 => IsContinuation(o2)
            /\ n >= 4 => IsContinuation(o3)
            /\ n = 3 => cp >= 2048 /\ cp \notin 55296..57343
            /\ n = 4 => cp >= 65536 /\ cp <= 1114111
    IN  IF n \in 1..4 /\ wellFormed THEN cp ELSE -1

\* The code point of the UTF-8 sequence of n escapes at position i of s.
Utf8At(s, i, n) ==
    Utf8Of(n, OctetAt(s, i), OctetAt(s, i + 3), OctetAt(s, i + 6), OctetAt(s, i + 9))

\* The escape at position i of s, whose first octet is o: the code point and
\* the number of characters it spans; cp = -1 where the engine throws
\* URIError.
EscapeAt(s, i, o) ==
    IF o < 0 THEN [cp |-> -1, span |-> 1, run |-> <<>>]
    ELSE [cp |-> Utf8At(s, i, Utf8Length(o)), span |-> 3 * Utf8Length(o), run |-> <<>>]

\* The characters of s from position i up to position k, the next '%', which
\* decode to themselves: the first of them and the run after it.
LiteralRun(s, i, k) == [cp |-> s[i], span |-> k - i, run |-> SubSeq(s, i + 1, k - 1)]

\* What decodeURIComponent reads at position i of s: an escape, or the
\* characters up to the next escape.
DecodeStep(s, i) ==
    IF s[i] # ch.percent
    THEN LiteralRun(s, i, FirstFrom(s, i, {ch.percent}))
    ELSE EscapeAt(s, i, OctetAt(s, i))

\* The decoded text that starts with the step read and goes on with rest.
DecodeJoin(step, rest) ==
    IF step.cp < 0 \/ ~rest.ok THEN [ok |-> FALSE, value |-> <<>>]
    ELSE [ok |-> TRUE, value |-> <<step.cp>> \o step.run \o rest.value]

\* decodeURIComponent(s) from position i on: [ok |-> TRUE, value |-> decoded],
\* or ok = FALSE where the engine throws URIError.
RECURSIVE DecodeFrom(_, _)
RECURSIVE DecodeAfter(_, _, _)
DecodeAfter(s, i, step) ==
    DecodeJoin(step, IF step.cp < 0 THEN [ok |-> FALSE, value |-> <<>>]
                     ELSE DecodeFrom(s, i + step.span))

DecodeFrom(s, i) ==
    IF i > Len(s) THEN [ok |-> TRUE, value |-> <<>>]
    ELSE DecodeAfter(s, i, DecodeStep(s, i))

decodeURIComponent(s) == DecodeFrom(s, 1)

(***************************************************************************)
(* encodeURIComponent                                                      *)
(***************************************************************************)

\* The characters encodeURIComponent leaves as they are:
\* A-Z a-z 0-9 - _ . ! ~ * ' ( )
IsUnescaped(c) ==
    \/ c \in 97..122
    \/ c \in 65..90
    \/ c \in 48..57
    \/ c \in {45, 95, 46, 33, 126, 42, 39, 40, 41}

\* The upper-case hexadecimal digit of v.
HexDigit(v) == IF v < 10 THEN 48 + v ELSE 55 + v

\* %XY for the octet o.
PercentOctet(o) == <<ch.percent, HexDigit(o \div 16), HexDigit(o % 16)>>

\* The escapes of the UTF-8 octets of the character c of the Basic
\* Multilingual Plane (no surrogate).
EncodeChar(c) ==
    IF IsUnescaped(c) THEN <<c>>
    ELSE IF c < 128 THEN PercentOctet(c)
    ELSE IF c < 2048 THEN PercentOctet(192 + (c \div 64)) \o PercentOctet(128 + (c % 64))
    ELSE PercentOctet(224 + (c \div 4096)) \o PercentOctet(128 + ((c \div 64) % 64))
         \o PercentOctet(128 + (c % 64))

\* encodeURIComponent(s) from position i on; a run of characters that stay
\* as they are is copied up to the next character to escape.
RECURSIVE EncodeFrom(_, _)
RECURSIVE EncodeRun(_, _, _)
EncodeRun(s, i, k) == SubSeq(s, i, k - 1) \o EncodeFrom(s, k)

EncodeFrom(s, i) ==
    IF i > Len(s) THEN <<>>
    ELSE IF IsUnescaped(s[i])
    THEN EncodeRun(s, i, FirstFrom(s, i, {c \in {s[k] : k \in i..Len(s)} : ~IsUnescaped(c)}))
    ELSE EncodeChar(s[i]) \o EncodeFrom(s, i + 1)

encodeURIComponent(s) == EncodeFrom(s, 1)

(***************************************************************************)
(* Validation helpers                                                      *)
(***************************************************************************)

\* Scaled: the source sets 1000.  Every use compares a count with it.
MAX_NODES_IN_GRAPH == 3

MAX_ID_LENGTH == 500

Invalid(msg) == [valid |-> FALSE, sanitized |-> <<>>, error |-> msg]

\* DecodedOr that never decodes.
DecodedOr_NoDecode(dec, nodeId) == nodeId

\* try { decodeURIComponent(nodeId) } catch { nodeId }
DecodedOr(dec, nodeId) == IF dec.ok THEN dec.value ELSE nodeId

\* The decoded and trimmed id of sanitizeNodeId, before its checks.
DecodedId(nodeId) == Trim(DecodedOr(decodeURIComponent(nodeId), nodeId))

AllIdChars(s) == s # <<>> /\ \A i \in 1..Len(s) : IsIdChar(s[i])

\* CheckPattern whose pattern is not anchored: one character of the class
\* anywhere in the id is enough.
CheckPattern_Unanchored(stripped) ==
    IF \A i \in 1..Len(stripped) : ~IsIdChar(stripped[i])
    THEN Invalid("Node ID contains invalid characters")
    ELSE [valid |-> TRUE, sanitized |-> stripped, error |-> ""]

\* The pattern test of sanitizeNodeId on the id without control characters.
CheckPattern(stripped) ==
    IF ~AllIdChars(stripped) THEN Invalid("Node ID contains invalid characters")
    ELSE [valid |-> TRUE, sanitized |-> stripped, error |-> ""]

\* CheckDecoded that rejects the length MAX_ID_LENGTH too.
CheckDecoded_Exclusive(trimmed) ==
    IF trimmed = <<>> THEN Invalid("Node ID cannot be empty")
    ELSE IF Len(trimmed) >= MAX_ID_LENGTH THEN Invalid("Node ID too long")
    ELSE CheckPattern(StripControl(trimmed))

\* The checks of sanitizeNodeId on the decoded and trimmed id.
CheckDecoded(trimmed) ==
    IF trimmed = <<>> THEN Invalid("Node ID cannot be empty")
    ELSE IF Len(trimmed) > MAX_ID_LENGTH THEN Invalid("Node ID too long")
    ELSE CheckPattern(StripControl(trimmed))

sanitizeNodeId(nodeId) ==
    IF nodeId = <<>> THEN Invalid("Node ID is required")
    ELSE CheckDecoded(DecodedId(nodeId))

FunctionIdError(msg) == [valid |-> FALSE, error |-> msg]

\* The checks of validateFunctionId on the trimmed id.
CheckFunctionId(trimmed) ==
    IF trimmed = <<>> THEN FunctionIdError("Function ID cannot be empty")
    ELSE IF Len(trimmed) > MAX_ID_LENGTH THEN FunctionIdError("Function ID too long")
    ELSE IF ~AllIdChars(trimmed)
    THEN FunctionIdError("Function ID contains invalid characters")
    ELSE [valid |-> TRUE, error |-> ""]

validateFunctionId(id) ==
    IF id = <<>> THEN FunctionIdError("Function ID is required")
    ELSE CheckFunctionId(Trim(id))

(***************************************************************************)
(* The store                                                               *)
(***************************************************************************)

Range(s) == {s[i] : i \in 1..Len(s)}

RemoveAt(s, i) == SubSeq(s, 1, i - 1) \o SubSeq(s, i + 1, Len(s))

\* stmt.get(...): the first row of a result, as a sequence of at most one.
Get(rows) == IF rows = <<>> THEN <<>> ELSE <<rows[1]>>

\* SELECT ... FROM nodes WHERE id = ? : the rows, in rowid order.
NodesById(id) == SelectSeq(nodes, LAMBDA n : n.id = id)

(***************************************************************************)
(* GET /function/graph                                                     *)
(***************************************************************************)

DirectionText == [caller |-> <<ch.c, ch.a, ch.l, ch.l, ch.e, ch.r>>,
                  callee |-> <<ch.c, ch.a, ch.l, ch.l, ch.e, ch.e>>]

\* JoinRows without the test n.kind = 'function'.
RECURSIVE JoinRows_AnyKind(_, _, _)
JoinRows_AnyKind(es, functionId, dir) ==
    IF es = <<>> THEN <<>>
    ELSE LET e    == Head(es)
             near == IF dir = "caller" THEN e.target ELSE e.source
             far  == IF dir = "caller" THEN e.source ELSE e.target
             hit  == IF near = functionId /\ e.kind = "call"
                     THEN SelectSeq(nodes, LAMBDA n : n.id = far)
                     ELSE <<>>
         IN  [i \in 1..Len(hit) |->
                 [direction |-> dir, id |-> hit[i].id, name |-> hit[i].name]]
             \o JoinRows_AnyKind(Tail(es), functionId, dir)

\* One arm of neighborhoodStmt: edges e JOIN nodes n ON n.id = <the far end
\* of e>, for the call edges whose near end is functionId and whose far end
\* is a function node.
RECURSIVE JoinRows(_, _, _)
JoinRows(es, functionId, dir) ==
    IF es = <<>> THEN <<>>
    ELSE LET e    == Head(es)
             near == IF dir = "caller" THEN e.target ELSE e.source
             far  == IF dir = "caller" THEN e.source ELSE e.target
             hit  == IF near = functionId /\ e.kind = "call"
                     THEN SelectSeq(nodes, LAMBDA n : n.id = far /\ n.kind = "function")
                     ELSE <<>>
         IN  [i \in 1..Len(hit) |->
                 [direction |-> dir, id |-> hit[i].id, name |-> hit[i].name]]
             \o JoinRows(Tail(es), functionId, dir)

\* The order of the arms of the UNION ALL (callers first), then name.
RowLess_UnionOrder(p, q) ==
    \/ p.direction = "caller" /\ q.direction = "callee"
    \/ p.direction = q.direction /\ ColLess(p.name, q.name)

\* ORDER BY direction, name
RowLess(p, q) ==
    \/ StrLess(DirectionText[p.direction], DirectionText[q.direction])
    \/ p.direction = q.direction /\ ColLess(p.name, q.name)

\* Every arrangement of the rows that ORDER BY direction, name allows: the
\* order among rows with equal keys is the engine's choice.
RECURSIVE Ordered(_)
Ordered(rows) ==
    IF rows = <<>> THEN {<<>>}
    ELSE LET least == {i \in 1..Len(rows) :
                          \A j \in 1..Len(rows) : ~RowLess(rows[j], rows[i])}
         IN  UNION {{<<rows[i]>> \o rest : rest \in Ordered(RemoveAt(rows, i))} :
                    i \in least}

\* neighborhoodStmt.all(functionId, functionId): the possible results.
neighborhoodStmt(functionId) ==
    Ordered(JoinRows(edges, functionId, "caller")
            \o JoinRows(edges, functionId, "callee"))

\* functionStmt without the test kind = 'function'.
functionStmt_AnyKind(functionId) ==
    Get(SelectSeq(nodes, LAMBDA n : n.id = functionId))

\* functionStmt.get(functionId)
functionStmt(functionId) ==
    Get(SelectSeq(nodes, LAMBDA n : n.id = functionId /\ n.kind = "function"))

\* anyNodeStmt.get(functionId)
anyNodeStmt(functionId) == Get(NodesById(functionId))

\* Array.from(new Set(ids)): the distinct ids in order of first occurrence.
RECURSIVE Distinct(_)
Distinct(ids) ==
    IF ids = <<>> THEN <<>>
    ELSE LET init == Distinct(SubSeq(ids, 1, Len(ids) - 1))
             last == ids[Len(ids)]
         IN  IF last \in Range(init) THEN init ELSE Append(init, last)

\* nodeIdArray after the splice at MAX_NODES_IN_GRAPH
Capped(nodeIdArray) ==
    IF Len(nodeIdArray) > MAX_NODES_IN_GRAPH
    THEN SubSeq(nodeIdArray, 1, MAX_NODES_IN_GRAPH)
    ELSE nodeIdArray

\* edgesStmt without the test on e.target.
edgesStmt_SourceOnly(nodeIdArray) ==
    SelectSeq(edges, LAMBDA e : e.kind = "call" /\ e.source \in Range(nodeIdArray))

\* edgesStmt.all(...nodeIdArray, ...nodeIdArray), in rowid order
edgesStmt(nodeIdArray) ==
    SelectSeq(edges, LAMBDA e : /\ e.kind = "call"
                                /\ e.source \in Range(nodeIdArray)
                                /\ e.target \in Range(nodeIdArray))

\* label: name || id
Label(name, id) == IF TruthyText(name) THEN name[1] ELSE id

\* GraphNodes that pushes the target after the neighbourhood rows.
GraphNodes_TargetLast(functionRow, neighborhoodRows) ==
    [i \in 1..Len(neighborhoodRows) |->
        [id |-> neighborhoodRows[i].id,
         label |-> Label(neighborhoodRows[i].name, neighborhoodRows[i].id)]]
    \o <<[id |-> functionRow.id, label |-> Label(functionRow.name, functionRow.id)]>>

\* The nodes array of the reply.
GraphNodes(functionRow, neighborhoodRows) ==
    <<[id |-> functionRow.id, label |-> Label(functionRow.name, functionRow.id)]>>
    \o [i \in 1..Len(neighborhoodRows) |->
           [id |-> neighborhoodRows[i].id,
            label |-> Label(neighborhoodRows[i].name, neighborhoodRows[i].id)]]

\* The edges array of the reply; the id edge-<index> is kept as the index.
GraphEdges(edgeRows) ==
    [i \in 1..Len(edgeRows) |->
        [id |-> i - 1, source |-> edgeRows[i].source, target |-> edgeRows[i].target]]

NoBody == [nodes |-> <<>>, edges |-> <<>>]

\* One statement run against the store and the rows it returned.
Ran(stmt, rows) == [stmt |-> stmt, rows |-> rows]

\* The reply with the graph of functionRow and its neighbourhood rows, given
\* the rows edgesStmt returned.
GraphFound(functionRow, neighborhoodRows, edgeRows) ==
    [reply |-> [status |-> 200, error |-> "", kind |-> "",
                body |-> [nodes |-> GraphNodes(functionRow, neighborhoodRows),
                          edges |-> GraphEdges(edgeRows)]],
     stmts |-> <<Ran("neighborhoodStmt", neighborhoodRows),
                 Ran("functionStmt", <<functionRow>>), Ran("edgesStmt", edgeRows)>>]

\* The reply when functionStmt found no row and anyNodeStmt returned anyNode.
GraphMissing(neighborhoodRows, anyNode) ==
    [reply |-> IF anyNode # <<>>
               THEN [status |-> 400, error |-> "Node exists but is not a function",
                     kind |-> anyNode[1].kind, body |-> NoBody]
               ELSE [status |-> 404, error |-> "Function not found", kind |-> "",
                     body |-> NoBody],
     stmts |-> <<Ran("neighborhoodStmt", neighborhoodRows), Ran("functionStmt", <<>>),
                 Ran("anyNodeStmt", anyNode)>>]

\* nodeIdArray: the distinct ids of the target and the rows, capped.
NodeIdArray(functionRow, neighborhoodRows) ==
    Capped(Distinct(<<functionRow.id>>
                    \o [i \in 1..Len(neighborhoodRows) |-> neighborhoodRows[i].id]))

\* The reply of the safety check nodeIdArray.length === 0: the nodes and no
\* edges, without running edgesStmt.
GraphEmpty(functionRow, neighborhoodRows) ==
    [reply |-> [status |-> 200, error |-> "", kind |-> "",
                body |-> [nodes |-> GraphNodes(functionRow, neighborhoodRows),
                          edges |-> <<>>]],
     stmts |-> <<Ran("neighborhoodStmt", neighborhoodRows),
                 Ran("functionStmt", <<functionRow>>)>>]

\* The handler from functionStmt on, given the row it returned.
GraphLookup(functionId, neighborhoodRows, functionRow) ==
    IF functionRow = <<>>
    THEN GraphMissing(neighborhoodRows, anyNodeStmt(functionId))
    ELSE IF NodeIdArray(functionRow[1], neighborhoodRows) = <<>>
    THEN GraphEmpty(functionRow[1], neighborhoodRows)
    ELSE GraphFound(functionRow[1], neighborhoodRows,
                    edgesStmt(NodeIdArray(functionRow[1], neighborhoodRows)))

\* The handler of GET /function/graph, given the result of sanitizeNodeId and
\* the rows neighborhoodStmt returned: the reply and the statements run.
GraphReply(validation, neighborhoodRows) ==
    IF ~validation.valid
    THEN [reply |-> [status |-> 400, error |-> validation.error, kind |-> "",
                     body |-> NoBody],
          stmts |-> <<>>]
    ELSE GraphLookup(validation.sanitized, neighborhoodRows,
                     functionStmt(validation.sanitized))

\* The requests handled, with the result of validating the raw parameter.
Request(op, raw, validation) ==
    [op |-> op, raw |-> raw, valid |-> validation.valid, id |-> validation.sanitized]

\* GET /function/graph?id=raw
GetNeighborhood(raw) ==
    /\ \E validation \in {sanitizeNodeId(raw)} :
          /\ req' = Request("graph", raw, validation)
          /\ \E rows \in neighborhoodStmt(validation.sanitized) :
                \E out \in {GraphReply(validation, rows)} :
                   /\ resp' = out.reply
                   /\ issued' = out.stmts
    /\ UNCHANGED <<nodes, edges, sources>>
    /\ UNCHANGED client

(***************************************************************************)
(* Stores and requests of the graph specification                          *)
(***************************************************************************)

\* Most rows of the edges table in a store of call edges only.
MaxEdges == 3

\* Most rows of the edges table in a store of mixed node and edge kinds.
MaxMixedEdges == 2

NodeRow(id, kind, name) ==
    [id |-> id, kind |-> kind, name |-> name, package |-> NULL, file |-> NULL,
     line |-> NULL, end_line |-> NULL, type_info |-> NULL]

EdgeRow(source, target, kind) == [source |-> source, target |-> target, kind |-> kind]

IdA == <<ch.a>>
IdB == <<ch.b>>
IdC == <<ch.c>>
IdD == <<ch.d>>

GraphIds == <<IdA, IdB, IdC, IdD>>

NameX == <<ch.x>>
NameY == <<ch.y>>

\* Tables of at most n rows drawn from the rows pool[from..Len(pool)], rows
\* in the order of the pool (a table may hold a row more than once).
RECURSIVE TablesFrom(_, _, _)
TablesFrom(pool, n, from) ==
    IF n = 0 THEN {<<>>}
    ELSE {<<>>} \cup UNION {{<<pool[i]>> \o rest : rest \in TablesFrom(pool, n - 1, i)} :
                            i \in from..Len(pool)}

TablesOf(pool, n) == TablesFrom(pool, n, 1)

\* The k-th of the pairs <<ids[i], ids[j]>>, row by row.
PairAt(ids, k) == <<ids[((k - 1) \div Len(ids)) + 1], ids[((k - 1) % Len(ids)) + 1]>>

CallEdgePool(ids) ==
    [k \in 1..(Len(ids) * Len(ids)) |->
        EdgeRow(PairAt(ids, k)[1], PairAt(ids, k)[2], "call")]

MixedEdgePool(ids) ==
    CallEdgePool(ids)
    \o [k \in 1..(Len(ids) * Len(ids)) |->
           EdgeRow(PairAt(ids, k)[1], PairAt(ids, k)[2], "ref")]

\* Stores whose four nodes are all functions, joined by call edges: the
\* target and its neighbours can outnumber MAX_NODES_IN_GRAPH.
InitFanStore ==
    /\ \E nc, nd \in {NameX, NameY} :
          nodes = <<NodeRow(IdA, "function", NULL), NodeRow(IdB, "function", Some(NameY)),
                    NodeRow(IdC, "function", Some(nc)), NodeRow(IdD, "function", Some(nd))>>
    /\ edges \in TablesOf(CallEdgePool(GraphIds), MaxEdges)

\* Stores over three ids, two of them a function, a node of another kind, or
\* no node at all (so that edges naming it dangle), with edges of two kinds.
InitMixedStore ==
    /\ \E ka, kb \in {"function", "type", "absent"} :
          nodes = SelectSeq(<<NodeRow(IdA, ka, Some(NameY)), NodeRow(IdB, kb, Some(NameX)),
                              NodeRow(IdC, "function", Some(NameX))>>,
                            LAMBDA n : n.kind # "absent")
    /\ edges \in TablesOf(MixedEdgePool(SubSeq(GraphIds, 1, 3)), MaxMixedEdges)

NoRequest == [op |-> "none", raw |-> <<>>, valid |-> FALSE, id |-> <<>>]

NoReply == [status |-> 0]

InitGraph ==
    /\ InitFanStore \/ InitMixedStore
    /\ sources = <<>>
    /\ req = NoRequest
    /\ resp = NoReply
    /\ issued = <<>>
    /\ ClientAtRest

\* Raw id parameters: the four ids, one of them also percent-encoded and one
\* only with surrounding blanks, a missing id and an id with a forbidden
\* character.
GraphRequests ==
    {IdA, IdB, IdD, <<ch.percent, ch.d6, ch.d2>>, <<ch.space, ch.c, ch.lf>>,
     <<>>, <<ch.a, ch.star>>}

NextGraph == \E raw \in GraphRequests : GetNeighborhood(raw)

SpecGraph == InitGraph /\ [][NextGraph]_vars

(***************************************************************************)
(* Properties of GET /function/graph                                       *)
(***************************************************************************)

\* The id the request names, once validated.
TargetId == req.id

WellFormed == req.valid

GraphOk == req.op = "graph" /\ resp.status = 200

NodeRows == Range(nodes)

EdgeRows == Range(edges)

IsFunction(id) == \E n \in NodeRows : n.id = id /\ n.kind = "function"

\* Function nodes with a call edge into t.
Callers(t) ==
    {n.id : n \in {m \in NodeRows : /\ m.kind = "function"
                                    /\ \E e \in EdgeRows : /\ e.kind = "call"
                                                           /\ e.source = m.id
                                                           /\ e.target = t}}

\* Function nodes with a call edge out of t.
Callees(t) ==
    {n.id : n \in {m \in NodeRows : /\ m.kind = "function"
                                    /\ \E e \in EdgeRows : /\ e.kind = "call"
                                                           /\ e.source = t
                                                           /\ e.target = m.id}}

Neighbourhood(t) == {t} \cup Callers(t) \cup Callees(t)

ReplyIds == [i \in 1..Len(resp.body.nodes) |-> resp.body.nodes[i].id]

ReplyEdges == Range(resp.body.edges)

\* The rows the neighbourhood query returned for the last request.
LoggedRows == issued[1].rows

\* C1 (as claimed): when the target and its distinct function-kind callers
\* and callees number more than MAX_NODES_IN_GRAPH ids, the reply's nodes
\* list has exactly MAX_NODES_IN_GRAPH entries and every returned edge has
\* both ends among the returned nodes.
C1_NodeCap ==
    (GraphOk /\ Cardinality(Neighbourhood(TargetId)) > MAX_NODES_IN_GRAPH)
    => /\ Len(resp.body.nodes) = MAX_NODES_IN_GRAPH
       /\ \A e \in ReplyEdges : e.source \in Range(ReplyIds) /\ e.target \in Range(ReplyIds)

\* C2 (as claimed): no node id occurs twice in the nodes list of a
\* successful reply.
C2_NodesDistinct ==
    GraphOk => \A i, j \in 1..Len(ReplyIds) : ReplyIds[i] = ReplyIds[j] => i = j

\* C3 (as claimed): in the rows of the neighbourhood query every caller row
\* precedes every callee row, and rows of one direction ascend by name.
C3_CallersFirst ==
    (req.op = "graph" /\ issued # <<>>)
    => \A i, j \in 1..Len(LoggedRows) :
          i < j => /\ ~(LoggedRows[i].direction = "callee"
                        /\ LoggedRows[j].direction = "caller")
                   /\ LoggedRows[i].direction = LoggedRows[j].direction
                      => ~ColLess(LoggedRows[j].name, LoggedRows[i].name)

\* C3 (amended): every callee row precedes every caller row, and rows of one
\* direction ascend by name, rows without a name first.
C3_CalleesFirst ==
    (req.op = "graph" /\ issued # <<>>)
    => \A i, j \in 1..Len(LoggedRows) :
          i < j => /\ ~(LoggedRows[i].direction = "caller"
                        /\ LoggedRows[j].direction = "callee")
                   /\ LoggedRows[i].direction = LoggedRows[j].direction
                      => ~ColLess(LoggedRows[j].name, LoggedRows[i].name)

\* A request whose rows hold a callee row, then two caller rows of different
\* names.
C3_Witness ==
    /\ req.op = "graph"
    /\ issued # <<>>
    /\ \E i, j, k \in 1..Len(LoggedRows) :
          /\ i < j /\ j < k
          /\ LoggedRows[i].direction = "callee"
          /\ LoggedRows[j].direction = "caller"
          /\ LoggedRows[k].direction = "caller"
          /\ LoggedRows[j].name # LoggedRows[k].name

\* C5: for a well-formed id the reply is 404 exactly when no node has the
\* id, the wrong-kind 400 naming the node's kind exactly when a node of
\* another kind has it, and a graph exactly when a function node has it.
C5_TargetResolution ==
    (req.op = "graph" /\ WellFormed)
    => /\ resp.status = 404 <=> ~\E n \in NodeRows : n.id = TargetId
       /\ (/\ resp.status = 400
           /\ resp.error = "Node exists but is not a function"
           /\ \E n \in NodeRows : n.id = TargetId /\ resp.kind = n.kind)
          <=> \E n \in NodeRows : n.id = TargetId /\ n.kind # "function"
       /\ resp.status = 200 <=> IsFunction(TargetId)

\* A wrong-kind reply that names the kind of the node.
C5_Witness ==
    /\ req.op = "graph"
    /\ WellFormed
    /\ resp.status = 400
    /\ resp.kind = "type"

\* The ids edgesStmt is given: the distinct ids of the reply's nodes in
\* order, cut at MAX_NODES_IN_GRAPH.
CappedIds == Range(Capped(Distinct(ReplyIds)))

InducedRows(ids) ==
    {i \in 1..Len(edges) : /\ edges[i].kind = "call"
                           /\ edges[i].source \in ids
                           /\ edges[i].target \in ids}

\* C6: the edges of a reply are exactly the store's call edges with both
\* ends in the capped node id set, row for row.
C6_InducedEdges ==
    GraphOk
    => /\ {<<e.source, e.target>> : e \in ReplyEdges}
          = {<<edges[i].source, edges[i].target>> : i \in InducedRows(CappedIds)}
       /\ Len(resp.body.edges) = Cardinality(InducedRows(CappedIds))

\* A reply with a call edge between two different neighbours of the target.
C6_Witness ==
    /\ GraphOk
    /\ \E e \in ReplyEdges :
          /\ e.source # TargetId /\ e.target # TargetId /\ e.source # e.target

\* C7: the nodes of a reply other than the target are exactly the function
\* nodes that call the target or that the target calls.
C7_NeighbourhoodMembership ==
    GraphOk
    => Range(ReplyIds) \ {TargetId}
       = (Callers(TargetId) \cup Callees(TargetId)) \ {TargetId}

\* A reply with a neighbour, for a target that also has a call edge to or
\* from an id without a node, or a node that is no function, or an edge of
\* another kind to a function.
C7_Witness ==
    /\ GraphOk
    /\ Len(resp.body.nodes) > 1
    /\ \E e \in EdgeRows :
          /\ TargetId \in {e.source, e.target}
          /\ \/ e.kind = "call" /\ ~IsFunction(e.source)
             \/ e.kind = "call" /\ ~IsFunction(e.target)
             \/ e.kind # "call" /\ {e.source, e.target} \ Range(ReplyIds) # {}

(***************************************************************************)
(* GET /functions                                                          *)
(***************************************************************************)

MAX_QUERY_LENGTH == 200

MIN_QUERY_LENGTH == 1

\* Scaled: the statement reads LIMIT 50.
SEARCH_LIMIT == 2

\* Truncated that keeps the whole text.
Truncated_Never(s) == s

\* sanitized.substring(0, MAX_QUERY_LENGTH) when the text is longer
Truncated(s) ==
    IF Len(s) > MAX_QUERY_LENGTH THEN SubSeq(s, 1, MAX_QUERY_LENGTH) ELSE s

\* s.replace(/[%_]/g, '\\$&') from position i on; a run of other characters
\* is copied up to the next % or _.
RECURSIVE EscapeFrom(_, _)
RECURSIVE EscapeRun(_, _, _)
EscapeRun(s, i, k) == SubSeq(s, i, k - 1) \o EscapeFrom(s, k)

EscapeFrom(s, i) ==
    IF i > Len(s) THEN <<>>
    ELSE IF s[i] \in {ch.percent, ch.underscore}
    THEN <<ch.backslash, s[i]>> \o EscapeFrom(s, i + 1)
    ELSE EscapeRun(s, i, FirstFrom(s, i, {ch.percent, ch.underscore}))

\* EscapeLike that escapes % only.
EscapeLike_PercentOnly(s) ==
    EscapeFrom(SelectSeq(s, LAMBDA c : c # ch.underscore), 1)

\* s.replace(/[%_]/g, '\\$&')
EscapeLike(s) == EscapeFrom(s, 1)

\* validateSearchQuery from the trimmed text on.
CheckQuery(trimmed) ==
    IF Len(trimmed) > 0 /\ Len(trimmed) < MIN_QUERY_LENGTH
    THEN Invalid("Query too short")
    ELSE [valid |-> TRUE, sanitized |-> EscapeLike(StripControl(Truncated(trimmed))),
          error |-> ""]

\* A value of a query-string parameter as the handler reads it: a string,
\* an array of strings when the parameter is given more than once, or
\* undefined when it is missing.
JsString(text) == [type |-> "string", text |-> text]

JsArray == [type |-> "object", text |-> <<>>]

JsUndefined == [type |-> "undefined", text |-> <<>>]

\* value || '' for a query-string parameter: undefined and '' are falsy.
OrEmpty(value) ==
    IF value.type = "undefined" \/ (value.type = "string" /\ value.text = <<>>)
    THEN JsString(<<>>)
    ELSE value

validateSearchQuery(query) ==
    IF query.type # "string" THEN Invalid("Query must be a string")
    ELSE CheckQuery(Trim(query.text))

\* The letter SQLite's LIKE compares: ASCII upper case folds to lower case.
Fold(c) == IF c \in 65..90 THEN c + 32 ELSE c

\* text LIKE pattern, as SQLite evaluates it when the statement names no
\* ESCAPE character: % matches any run, _ one character, and every other
\* character (the backslash too) itself, ASCII letters without case.
RECURSIVE Like(_, _)
Like(pattern, text) ==
    IF pattern = <<>> THEN text = <<>>
    ELSE IF Head(pattern) = ch.percent
    THEN \E k \in 0..Len(text) : Like(Tail(pattern), SubSeq(text, k + 1, Len(text)))
    ELSE IF text = <<>> THEN FALSE
    ELSE IF Head(pattern) = ch.underscore THEN Like(Tail(pattern), Tail(text))
    ELSE Fold(Head(pattern)) = Fold(Head(text)) /\ Like(Tail(pattern), Tail(text))

\* searchStmt without LIMIT 50.
searchStmt_NoLimit(pattern) ==
    LET rows == SelectSeq(nodes, LAMBDA n : /\ n.kind = "function"
                                            /\ n.name # NULL
                                            /\ Like(pattern, n.name[1]))
    IN  [i \in 1..Len(rows) |-> [id |-> rows[i].id, name |-> rows[i].name]]

\* SELECT id, name FROM nodes WHERE kind = 'function' AND name LIKE ? LIMIT 50
searchStmt(pattern) ==
    LET rows == SelectSeq(nodes, LAMBDA n : /\ n.kind = "function"
                                            /\ n.name # NULL
                                            /\ Like(pattern, n.name[1]))
    IN  [i \in 1..(IF Len(rows) > SEARCH_LIMIT THEN SEARCH_LIMIT ELSE Len(rows)) |->
            [id |-> rows[i].id, name |-> rows[i].name]]

\* The reply with the rows searchStmt returned.
SearchFound(rows) ==
    [reply |-> [status |-> 200, error |-> "", rows |-> rows],
     stmts |-> <<Ran("searchStmt", rows)>>]

\* SearchReply without the test for an empty sanitized query.
SearchReply_NoEmptyTest(validation) ==
    IF ~validation.valid
    THEN [reply |-> [status |-> 400, error |-> validation.error, rows |-> <<>>],
          stmts |-> <<>>]
    ELSE SearchFound(searchStmt(<<ch.percent>> \o validation.sanitized \o <<ch.percent>>))

\* The handler of GET /functions, given the result of validateSearchQuery.
SearchReply(validation) ==
    IF ~validation.valid
    THEN [reply |-> [status |-> 400, error |-> validation.error, rows |-> <<>>],
          stmts |-> <<>>]
    ELSE IF validation.sanitized = <<>>
    THEN [reply |-> [status |-> 200, error |-> "", rows |-> <<>>], stmts |-> <<>>]
    ELSE SearchFound(searchStmt(<<ch.percent>> \o validation.sanitized \o <<ch.percent>>))

\* GET /functions with the parameter q; rawQuery is q || "".
SearchFunctions(q) ==
    /\ \E validation \in {validateSearchQuery(OrEmpty(q))} :
          /\ req' = [op |-> "search", raw |-> OrEmpty(q).text, valid |-> validation.valid,
                      id |-> validation.sanitized, type |-> q.type]
          /\ \E out \in {SearchReply(validation)} :
                /\ resp' = out.reply
                /\ issued' = out.stmts
    /\ UNCHANGED <<nodes, edges, sources>>
    /\ UNCHANGED client

(***************************************************************************)
(* Stores and requests of the search specification                         *)
(***************************************************************************)

\* Most rows of the nodes table in a search store.
MaxSearchNodes == 4

\* Longest search term drawn from the term alphabet.
MaxTermLen == 2

\* The rows of a search store, without their ids: five function names, one
\* of them also borne by a node of another kind.
SearchRowPool ==
    <<[kind |-> "function", name |-> <<ch.a>>],
      [kind |-> "function", name |-> <<ch.a, ch.underscore>>],
      [kind |-> "function", name |-> <<ch.a, ch.percent>>],
      [kind |-> "function", name |-> <<ch.backslash, ch.a>>],
      [kind |-> "function", name |-> <<ch.A, ch.b>>],
      [kind |-> "type", name |-> <<ch.a>>]>>

\* The table whose i-th row has id "0" + i.
WithIds(rows) ==
    [i \in 1..Len(rows) |-> NodeRow(<<ch.d0 + i>>, rows[i].kind, Some(rows[i].name))]

TermAlphabet == {ch.a, ch.percent, ch.underscore, ch.backslash}

RECURSIVE TextsOver(_, _)
TextsOver(alphabet, n) ==
    IF n = 0 THEN {<<>>}
    ELSE {<<>>} \cup {<<c>> \o t : c \in alphabet, t \in TextsOver(alphabet, n - 1)}

\* Texts of q: every text over the alphabet up to the bound, two with
\* surrounding blanks and two of blanks or control characters only.
SearchTexts ==
    TextsOver(TermAlphabet, MaxTermLen)
    \cup {<<ch.space, ch.underscore, ch.tab>>, <<ch.space>>, <<ch.soh>>,
          <<ch.space, ch.del>>}

\* The parameter q: a text, q given twice, or no q.
SearchRequests == {JsString(text) : text \in SearchTexts} \cup {JsArray, JsUndefined}

InitSearch ==
    /\ nodes \in {WithIds(rows) : rows \in TablesOf(SearchRowPool, MaxSearchNodes)}
    /\ edges = <<>>
    /\ sources = <<>>
    /\ req = NoRequest
    /\ resp = NoReply
    /\ issued = <<>>
    /\ ClientAtRest

NextSearch == \E q \in SearchRequests : SearchFunctions(q)

SpecSearch == InitSearch /\ [][NextSearch]_vars

(***************************************************************************)
(* Properties of GET /functions                                            *)
(***************************************************************************)

\* text holds term as a run of consecutive characters, ASCII letters
\* compared without case (the collation rule of the pattern match).
Contains(text, term) ==
    \E k \in 0..(Len(text) - Len(term)) :
        \A i \in 1..Len(term) : Fold(text[k + i]) = Fold(term[i])

\* The function nodes whose name holds the term.
Qualifying(term) ==
    {n \in NodeRows : n.kind = "function" /\ n.name # NULL /\ Contains(n.name[1], term)}

\* The term the user typed, trimmed.
UserTerm == Trim(req.raw)

\* C4 (as claimed): for every non-empty term, the nodes returned are function
\* nodes whose name holds the trimmed term literally, and when at most
\* SEARCH_LIMIT nodes qualify every such node is returned.
C4_LiteralMatch ==
    (req.op = "search" /\ resp.status = 200 /\ UserTerm # <<>>)
    => /\ \A i \in 1..Len(resp.rows) :
             \E n \in Qualifying(UserTerm) : n.id = resp.rows[i].id
       /\ Cardinality(Qualifying(UserTerm)) <= SEARCH_LIMIT
          => \A n \in Qualifying(UserTerm) :
                \E i \in 1..Len(resp.rows) : resp.rows[i].id = n.id

\* The text is made of nothing but blanks, or of nothing but control
\* characters (the empty text is both).
OnlyBlanksOrOnlyControls(text) ==
    \/ \A i \in 1..Len(text) : text[i] \in {ch.space, ch.tab, ch.lf}
    \/ \A i \in 1..Len(text) : text[i] \in {ch.soh, ch.del}

C17_SearchBound ==
    (req.op = "search" /\ resp.status = 200)
    => /\ Len(resp.rows) <= SEARCH_LIMIT
       /\ \A i \in 1..Len(resp.rows) :
             /\ \E n \in NodeRows : n.id = resp.rows[i].id
             /\ \A n \in NodeRows : n.id = resp.rows[i].id => n.kind = "function"

\* A reply of SEARCH_LIMIT entries from a store in which more function nodes
\* than that, and a node of another kind, have a name that holds the term.
C17_Witness ==
    /\ req.op = "search"
    /\ resp.status = 200
    /\ UserTerm # <<>>
    /\ Len(resp.rows) = SEARCH_LIMIT
    /\ Cardinality(Qualifying(UserTerm)) > SEARCH_LIMIT
    /\ \E n \in NodeRows : n.kind # "function" /\ Contains(n.name[1], UserTerm)

(***************************************************************************)
(* GET /source                                                             *)
(***************************************************************************)

\* 'ext::'
ExtPrefix == <<ch.e, ch.x, ch.t, ch.colon, ch.colon>>

\* content.split('\n')
RECURSIVE Split(_)
Split(s) ==
    IF \A i \in 1..Len(s) : s[i] # ch.lf THEN <<s>>
    ELSE LET k == CHOOSE i \in 1..Len(s) :
                     s[i] = ch.lf /\ \A j \in 1..(i - 1) : s[j] # ch.lf
         IN  <<SubSeq(s, 1, k - 1)>> \o Split(SubSeq(s, k + 1, Len(s)))

\* lines.join('\n')
RECURSIVE Join(_)
Join(lines) ==
    IF lines = <<>> THEN <<>>
    ELSE IF Len(lines) = 1 THEN lines[1]
    ELSE lines[1] \o <<ch.lf>> \o Join(Tail(lines))

\* The index Array.prototype.slice makes of an argument: a negative one
\* counts from the end, and both are kept within 0..len.
SliceIndex(k, len) ==
    IF k < 0 THEN (IF len + k < 0 THEN 0 ELSE len + k)
    ELSE IF k > len THEN len ELSE k

\* lines.slice(start, end) without its last element.
JsSlice_ShortByOne(lines, start, end) ==
    SubSeq(lines, SliceIndex(start, Len(lines)) + 1, SliceIndex(end, Len(lines)) - 1)

\* lines.slice(start, end)
JsSlice(lines, start, end) ==
    SubSeq(lines, SliceIndex(start, Len(lines)) + 1, SliceIndex(end, Len(lines)))

\* col || dflt for a nullable INTEGER column
OrNum(col, dflt) == IF TruthyNum(col) THEN col[1] ELSE dflt

\* node.line || 1
StartLine(node) == OrNum(node.line, 1)

\* node.end_line || lines.length
EndLine_IgnoresLine(node, lines) == OrNum(node.end_line, Len(lines))

\* node.end_line || node.line || lines.length
EndLine(node, lines) == OrNum(node.end_line, OrNum(node.line, Len(lines)))

\* extNodeStmt.get(nodeId) and nodeStmt.get(nodeId)
nodeStmt(nodeId) == Get(NodesById(nodeId))

\* sourceStmt.get(file)
sourceStmt(file) == Get(SelectSeq(sources, LAMBDA r : r.file = file))

SourceError(status, msg, info, file) ==
    [status |-> status, error |-> msg, node_info |-> info, file |-> file, body |-> NULL]

\* SourceSlice that answers a line past the end of the file with an error.
SourceSlice_RangeChecked(node, source, lines) ==
    [reply |-> IF StartLine(node) > Len(lines)
               THEN SourceError(404, "Line out of range", NULL, NULL)
               ELSE [status |-> 200, error |-> "", node_info |-> NULL, file |-> NULL,
                     body |-> Some([file_name |-> node.file[1],
                                    start_line |-> StartLine(node),
                                    end_line |-> EndLine(node, lines),
                                    code |-> Join(JsSlice(lines, StartLine(node) - 1,
                                                          EndLine(node, lines)))])],
     stmts |-> <<Ran("nodeStmt", <<node>>), Ran("sourceStmt", source)>>]

\* The reply with the lines of the node cut out of the file.
SourceSlice(node, source, lines) ==
    [reply |-> [status |-> 200, error |-> "", node_info |-> NULL, file |-> NULL,
                body |-> Some([file_name |-> node.file[1],
                               start_line |-> StartLine(node),
                               end_line |-> EndLine(node, lines),
                               code |-> Join(JsSlice(lines, StartLine(node) - 1,
                                                     (EndLine(node, lines) - 1) + 1))])],
     stmts |-> <<Ran("nodeStmt", <<node>>), Ran("sourceStmt", source)>>]

\* SourceOfFile whose reply for a missing file does not name the file.
SourceOfFile_NoFileName(node, source) ==
    IF source = <<>>
    THEN [reply |-> SourceError(404, "Source file not found", NULL, NULL),
          stmts |-> <<Ran("nodeStmt", <<node>>), Ran("sourceStmt", source)>>]
    ELSE SourceSlice(node, source, Split(source[1].content))

\* The handler from sourceStmt on, given the row it returned.
SourceOfFile(node, source) ==
    IF source = <<>>
    THEN [reply |-> SourceError(404, "Source file not found", NULL, node.file),
          stmts |-> <<Ran("nodeStmt", <<node>>), Ran("sourceStmt", source)>>]
    ELSE SourceSlice(node, source, Split(source[1].content))

\* The handler from nodeStmt on, given the row it returned.
SourceOfNode(node) ==
    IF node = <<>>
    THEN [reply |-> SourceError(404, "Node not found", NULL, NULL),
          stmts |-> <<Ran("nodeStmt", node)>>]
    ELSE IF ~TruthyText(node[1].file)
    THEN [reply |-> SourceError(404, "Source code not available",
                                Some([name |-> node[1].name, package |-> node[1].package]),
                                NULL),
          stmts |-> <<Ran("nodeStmt", node)>>]
    ELSE SourceOfFile(node[1], sourceStmt(node[1].file[1]))

\* The external branch, given the row extNodeStmt returned.
SourceOfExternal(extNode) ==
    [reply |-> IF extNode # <<>>
               THEN SourceError(404, "External function - source code not available",
                                Some([name |-> extNode[1].name,
                                      package |-> extNode[1].package,
                                      type_info |-> extNode[1].type_info]),
                                NULL)
               ELSE SourceError(404, "External node - source code not available",
                                NULL, NULL),
     stmts |-> <<Ran("extNodeStmt", extNode)>>]

\* The handler past validation, without the test for the external prefix.
SourceLookup_NoExternalTest(nodeId) == SourceOfNode(nodeStmt(nodeId))

\* The handler past validation.
SourceLookup(nodeId) ==
    IF StartsWith(nodeId, ExtPrefix) THEN SourceOfExternal(nodeStmt(nodeId))
    ELSE SourceOfNode(nodeStmt(nodeId))

\* SourceReply without the test of validation.valid.
SourceReply_NoValidation(validation) == SourceLookup(validation.sanitized)

\* The handler of GET /source, given the result of sanitizeNodeId.
SourceReply(validation) ==
    IF ~validation.valid
    THEN [reply |-> SourceError(400, validation.error, NULL, NULL), stmts |-> <<>>]
    ELSE SourceLookup(validation.sanitized)

\* GetSource that deletes the sources row it has read.
GetSource_Consuming(raw) ==
    /\ \E validation \in {sanitizeNodeId(raw)} :
          /\ req' = Request("source", raw, validation)
          /\ \E out \in {SourceReply(validation)} :
                /\ resp' = out.reply
                /\ issued' = out.stmts
                /\ sources' = IF out.reply.status = 200 THEN <<>> ELSE sources
    /\ UNCHANGED <<nodes, edges>>
    /\ UNCHANGED client

\* GET /source?id=raw
GetSource(raw) ==
    /\ \E validation \in {sanitizeNodeId(raw)} :
          /\ req' = Request("source", raw, validation)
          /\ \E out \in {SourceReply(validation)} :
                /\ resp' = out.reply
                /\ issued' = out.stmts
    /\ UNCHANGED <<nodes, edges, sources>>
    /\ UNCHANGED client

(***************************************************************************)
(* Stores and requests of the source specification                         *)
(***************************************************************************)

\* Largest line number stored in a node.
MaxLine == 3

\* Longest file content.
MaxContentLen == 4

IdF == <<ch.f>>

IdExtF == ExtPrefix \o <<ch.f>>

FileM == <<ch.y>>

ContentAlphabet == {ch.x, ch.lf}

\* A nullable line number: NULL or 0..MaxLine.
LineColumns == {NULL} \cup {Some(k) : k \in 0..MaxLine}

\* The node rows of a source store: an ordinary or an external id, with no
\* file, an empty file name or the name of a file.
SourceNodeRows ==
    {[id |-> id, kind |-> "function", name |-> Some(<<ch.f>>), package |-> Some(<<ch.a>>),
      file |-> file, line |-> line, end_line |-> end, type_info |-> Some(<<ch.t>>)] :
        id \in {IdF, IdExtF}, file \in {NULL, Some(<<>>), Some(FileM)},
        line \in LineColumns, end \in LineColumns}

\* Stores of at most one node and at most one file, the file of the node or
\* another one.
InitSource ==
    /\ nodes \in {<<>>} \cup {<<n>> : n \in SourceNodeRows}
    /\ edges = <<>>
    /\ sources \in {<<>>, <<[file |-> <<ch.x>>, content |-> <<ch.x>>]>>}
                   \cup {<<[file |-> FileM, content |-> text]>> :
                            text \in TextsOver(ContentAlphabet, MaxContentLen)}
    /\ req = NoRequest
    /\ resp = NoReply
    /\ issued = <<>>
    /\ ClientAtRest

\* Raw id parameters: the two ids, an id percent-encoded, and a text that is
\* no id.
SourceRequests ==
    {IdF, IdExtF, <<ch.percent, ch.d6, ch.d6>>, <<ch.f, ch.space, ch.f>>}

NextSource == \E raw \in SourceRequests : GetSource(raw)

SpecSource == InitSource /\ [][NextSource]_vars

(***************************************************************************)
(* Properties of GET /source                                               *)
(***************************************************************************)

\* The node row with the id of the request, in a sequence of at most one.
RequestedNode == Get(NodesById(req.id))

\* The lines of the file the requested node names.
FileLines == Split(sourceStmt(RequestedNode[1].file[1])[1].content)

\* The requested node has a file that the store holds.
HasSource ==
    /\ RequestedNode # <<>>
    /\ TruthyText(RequestedNode[1].file)
    /\ sourceStmt(RequestedNode[1].file[1]) # <<>>

IsExternalRequest == req.op = "source" /\ req.valid /\ StartsWith(req.id, ExtPrefix)

\* C8 (as claimed): for a valid id that begins with 'ext::' the reply never
\* carries code and is always a 404 that carries name, package and type_info.
C8_ExternalAlwaysMetadata ==
    IsExternalRequest
    => /\ resp.status = 404
       /\ resp.body = NULL
       /\ resp.node_info # NULL
       /\ DOMAIN resp.node_info[1] = {"name", "package", "type_info"}

\* C8 (amended): for a valid id that begins with 'ext::' the reply never
\* carries code and is always a 404; it carries the node's name, package and
\* type_info when the store has a node with that id, and no metadata when it
\* has none.
C8_ExternalNotFound ==
    IsExternalRequest
    => /\ resp.status = 404
       /\ resp.body = NULL
       /\ RequestedNode = <<>> => resp.node_info = NULL
       /\ RequestedNode # <<>>
          => resp.node_info = Some([name |-> RequestedNode[1].name,
                                    package |-> RequestedNode[1].package,
                                    type_info |-> RequestedNode[1].type_info])

\* A request for an external id whose node names a file that the store holds.
C8_Witness ==
    /\ IsExternalRequest
    /\ HasSource
    /\ resp.status = 404
    /\ resp.node_info # NULL

\* The lines from..to of the file, joined by newlines.
LinesJoined(from, to) == Join(SubSeq(FileLines, from, to))

\* C9: for a node with a file of N lines, 1 <= line <= end_line <= N gives
\* the code of exactly the lines line..end_line, and line = k without
\* end_line gives exactly line k.
C9_Slice ==
    (req.op = "source" /\ req.valid /\ ~StartsWith(req.id, ExtPrefix) /\ HasSource)
    => LET node == RequestedNode[1]
           N == Len(FileLines)
       IN  /\ (/\ node.line # NULL /\ node.end_line # NULL
               /\ 1 <= node.line[1] /\ node.line[1] <= node.end_line[1]
               /\ node.end_line[1] <= N)
              => /\ resp.status = 200
                 /\ resp.body[1].code = LinesJoined(node.line[1], node.end_line[1])
           /\ (node.line # NULL /\ node.end_line = NULL
               /\ 1 <= node.line[1] /\ node.line[1] <= N)
              => /\ resp.status = 200
                 /\ resp.body[1].code = FileLines[node.line[1]]

\* A reply with the lines 2..3 of a file of more than three lines that
\* differ from one another.
C9_Witness ==
    /\ req.op = "source"
    /\ resp.status = 200
    /\ HasSource
    /\ RequestedNode[1].line = Some(2)
    /\ RequestedNode[1].end_line = Some(3)
    /\ Len(FileLines) >= 3
    /\ FileLines[1] # FileLines[2]
    /\ FileLines[2] # FileLines[3]
    /\ resp.body[1].code = FileLines[2] \o <<ch.lf>> \o FileLines[3]

\* The lines from..to of the file that exist, joined by newlines.
LinesBetween(from, to) ==
    LET last == IF to > Len(FileLines) THEN Len(FileLines) ELSE to
    IN  IF from > last THEN <<>> ELSE LinesJoined(from, last)

\* C10: the reported start_line is line, or 1 without a line; the reported
\* end_line is end_line, or line without an end_line, or the line count of
\* the file without both; the code is the lines of the file from the
\* reported start_line to the reported end_line (line numbers count from 1).
C10_Defaulting ==
    (req.op = "source" /\ resp.status = 200
     /\ RequestedNode[1].line # Some(0) /\ RequestedNode[1].end_line # Some(0))
    => LET node == RequestedNode[1]
           body == resp.body[1]
       IN  /\ body.start_line = IF node.line # NULL THEN node.line[1] ELSE 1
           /\ body.end_line = IF node.end_line # NULL THEN node.end_line[1]
                              ELSE IF node.line # NULL THEN node.line[1]
                              ELSE Len(FileLines)
           /\ body.code = LinesBetween(body.start_line, body.end_line)

\* A reply for a node with a line beyond the first and no end_line, over a
\* file with more lines after it.
C10_Witness ==
    /\ req.op = "source"
    /\ resp.status = 200
    /\ RequestedNode[1].line # NULL
    /\ RequestedNode[1].line[1] >= 2
    /\ RequestedNode[1].end_line = NULL
    /\ Len(FileLines) > RequestedNode[1].line[1]
    /\ resp.body[1].end_line = RequestedNode[1].line[1]

\* C20: for a valid id that is not external, in this order: no node with the
\* id gives the not-found reply; a node without a file gives 'Source code not
\* available' with the node's name and package; a node whose file has no row
\* in sources gives 'Source file not found' with the file name; and code is
\* returned exactly when the node, its file and the row in sources exist.
C20_FailureKinds ==
    (req.op = "source" /\ req.valid /\ ~StartsWith(req.id, ExtPrefix))
    => /\ RequestedNode = <<>>
          => resp = SourceError(404, "Node not found", NULL, NULL)
       /\ (RequestedNode # <<>> /\ RequestedNode[1].file \in {NULL, Some(<<>>)})
          => resp = SourceError(404, "Source code not available",
                                Some([name |-> RequestedNode[1].name,
                                      package |-> RequestedNode[1].package]),
                                NULL)
       /\ (/\ RequestedNode # <<>>
           /\ RequestedNode[1].file \notin {NULL, Some(<<>>)}
           /\ \A r \in Range(sources) : r.file # RequestedNode[1].file[1])
          => resp = SourceError(404, "Source file not found", NULL, RequestedNode[1].file)
       /\ (resp.status = 200 /\ resp.body # NULL) <=> HasSource
       /\ HasSource => resp.body[1].file_name = RequestedNode[1].file[1]

\* A request for a node that names a file of which the store has no row,
\* while it has a row of another file.
C20_Witness ==
    /\ req.op = "source"
    /\ req.valid
    /\ RequestedNode # <<>>
    /\ RequestedNode[1].file = Some(FileM)
    /\ sources # <<>>
    /\ resp.status = 404
    /\ resp.file = Some(FileM)

(***************************************************************************)
(* The three handlers over one store                                       *)
(***************************************************************************)

\* Stores with a function, a node of another kind, or a function with a
\* file; at most one call edge and one file.
InitServer ==
    /\ nodes \in {<<>>,
                  <<NodeRow(IdA, "function", Some(NameX))>>,
                  <<NodeRow(IdA, "function", Some(NameX)), NodeRow(IdB, "type", Some(NameY))>>,
                  <<[NodeRow(IdF, "function", Some(<<ch.a>>)) EXCEPT !.file = Some(FileM)]>>}
    /\ edges \in {<<>>, <<EdgeRow(IdA, IdA, "call")>>}
    /\ sources \in {<<>>, <<[file |-> FileM, content |-> <<ch.x>>]>>}
    /\ req = NoRequest
    /\ resp = NoReply
    /\ issued = <<>>
    /\ ClientAtRest

\* An id of one character more than MAX_ID_LENGTH.
TooLongId == Pad(MAX_ID_LENGTH + 1)

NextServer ==
    \/ \E q \in SearchRequests : SearchFunctions(q)
    \/ \E raw \in GraphRequests \cup {TooLongId} : GetNeighborhood(raw)
    \/ \E raw \in SourceRequests \cup {TooLongId} : GetSource(raw)

SpecServer == InitServer /\ [][NextServer]_vars

\* The reasons the validators give.
ValidationErrors ==
    {"Node ID is required", "Node ID cannot be empty", "Node ID too long",
     "Node ID contains invalid characters", "Query must be a string", "Query too short"}

\* C19: in SearchFunctions, GetNeighborhood and GetSource, a request whose
\* input fails validation is answered with the validation error (status 400
\* and the validator's reason) and runs no statement against the store.
C19_ValidationFirst ==
    (req.op \in {"search", "graph", "source"} /\ ~req.valid)
    => /\ resp.status = 400
       /\ resp.error \in ValidationErrors
       /\ issued = <<>>

\* A source request with an id that fails validation, on a store with a node.
C19_Witness ==
    /\ req.op = "source"
    /\ ~req.valid
    /\ req.raw # <<>>
    /\ nodes # <<>>
    /\ resp.status = 400
    /\ issued = <<>>

(***************************************************************************)
(* The validators on their own                                             *)
(***************************************************************************)

\* Longest id drawn from the id alphabet.
MaxIdLen == 3

\* Longest query drawn from the query alphabet.
MaxQueryLen == 3

\* package::function@file:line:col
GoId(package, function, file, line, col) ==
    package \o <<ch.colon, ch.colon>> \o function \o <<ch.at>> \o file
    \o <<ch.colon>> \o line \o <<ch.colon>> \o col

\* 'client_golang/prometheus::*Registry.Collect@registry.go:575:1'
PointerReceiverId ==
    <<99, 108, 105, 101, 110, 116, 95, 103, 111, 108, 97, 110, 103, 47, 112,
      114, 111, 109, 101, 116, 104, 101, 117, 115, 58, 58, 42, 82, 101, 103,
      105, 115, 116, 114, 121, 46, 67, 111, 108, 108, 101, 99, 116, 64, 114,
      101, 103, 105, 115, 116, 114, 121, 46, 103, 111, 58, 53, 55, 53, 58,
      49>>

\* Ids in the format of Go function ids: functions, methods, methods with a
\* pointer receiver, and external ids.
GoIds ==
    {GoId(package, function, <<ch.r, ch.dot, ch.a>>, <<ch.d5, ch.d0>>, <<ch.d1>>) :
        package \in {<<ch.a>>, <<ch.a, ch.underscore, ch.b, ch.slash, ch.c>>},
        function \in {<<ch.f>>, <<ch.A, ch.dot, ch.f>>, <<ch.star, ch.A, ch.dot, ch.f>>}}
    \cup {PointerReceiverId,
          ExtPrefix \o <<ch.a, ch.slash, ch.b, ch.dot, ch.B>>}

IdAlphabet ==
    {ch.a, ch.colon, ch.d6, ch.percent, ch.space, ch.lf, ch.soh, ch.lt, ch.star}

\* Ids about MAX_ID_LENGTH long: letters, then a short tail.
LongIds ==
    {Pad(n) \o tail : n \in (MAX_ID_LENGTH - 2)..MAX_ID_LENGTH,
                      tail \in TextsOver({ch.a, ch.space, ch.lt}, MaxIdLen)}

\* Inputs of the id validators.
IdInputs ==
    TextsOver(IdAlphabet, MaxIdLen) \cup LongIds \cup GoIds
    \cup {<<ch.a, ch.tab, ch.a>>, <<ch.a, ch.semicolon>>, <<ch.nbsp, ch.a>>,
          <<ch.a, ch.del>>}

QueryAlphabet == {ch.a, ch.percent, ch.underscore, ch.soh, ch.space}

\* Queries about MAX_QUERY_LENGTH long: letters, then a short tail.
LongQueries ==
    {Pad(n) \o tail : n \in (MAX_QUERY_LENGTH - 2)..MAX_QUERY_LENGTH,
                      tail \in TextsOver(QueryAlphabet, MaxQueryLen)}

\* Inputs of validateSearchQuery: texts, and two values that are no string.
QueryInputs ==
    {JsString(text) : text \in TextsOver(QueryAlphabet, MaxQueryLen) \cup LongQueries
                                \cup {<<ch.a, ch.tab, ch.backslash>>}}
    \cup {JsArray, JsUndefined}

\* An input drawn for a validator, before the validator is applied.
Input(validator, value) ==
    [op |-> "none", raw |-> value.text, valid |-> FALSE, id |-> <<>>,
     type |-> value.type, validator |-> validator]

\* validateFunctionId(id) on the id drawn
ValidateFunctionId ==
    /\ req.op = "none"
    /\ req.validator = "id"
    /\ \E result \in {validateFunctionId(req.raw)} :
          /\ req' = [op |-> "validateFunctionId", raw |-> req.raw,
                      valid |-> result.valid, id |-> <<>>]
          /\ resp' = result
    /\ UNCHANGED <<nodes, edges, sources, issued>>
    /\ UNCHANGED client

\* sanitizeNodeId(nodeId) on the id drawn
SanitizeNodeId ==
    /\ req.op = "none"
    /\ req.validator = "id"
    /\ \E result \in {sanitizeNodeId(req.raw)} :
          /\ req' = Request("sanitizeNodeId", req.raw, result)
          /\ resp' = result
    /\ UNCHANGED <<nodes, edges, sources, issued>>
    /\ UNCHANGED client

\* sanitizeNodeId(encodeURIComponent(id)) on the id drawn; the request keeps
\* what sanitizeNodeId makes of id itself.
SanitizeEncoded ==
    /\ req.op = "none"
    /\ req.validator = "id"
    /\ \E direct \in {sanitizeNodeId(req.raw)} :
          req' = Request("sanitizeEncoded", req.raw, direct)
    /\ \E result \in {sanitizeNodeId(encodeURIComponent(req.raw))} :
          resp' = result
    /\ UNCHANGED <<nodes, edges, sources, issued>>
    /\ UNCHANGED client

\* validateSearchQuery(query) on the query drawn
ValidateSearchQuery ==
    /\ req.op = "none"
    /\ req.validator = "query"
    /\ \E result \in {validateSearchQuery([type |-> req.type, text |-> req.raw])} :
          /\ req' = [op |-> "validateSearchQuery", raw |-> req.raw,
                      valid |-> result.valid, id |-> result.sanitized,
                      type |-> req.type]
          /\ resp' = result
    /\ UNCHANGED <<nodes, edges, sources, issued>>
    /\ UNCHANGED client

InitValidation ==
    /\ nodes = <<>>
    /\ edges = <<>>
    /\ sources = <<>>
    /\ req \in {Input("id", JsString(id)) : id \in IdInputs}
               \cup {Input("query", query) : query \in QueryInputs}
    /\ resp = NoReply
    /\ issued = <<>>
    /\ ClientAtRest

NextValidation ==
    \/ ValidateFunctionId
    \/ SanitizeNodeId
    \/ SanitizeEncoded
    \/ ValidateSearchQuery

SpecValidation == InitValidation /\ [][NextValidation]_vars

(***************************************************************************)
(* Properties of the validators                                            *)
(***************************************************************************)

\* The characters A-Z a-z 0-9 : _ / @ . -
AllowedClass == (65..90) \cup (97..122) \cup (48..57) \cup {58, 95, 47, 64, 46, 45}

AllInClass(text) == \A i \in 1..Len(text) : text[i] \in AllowedClass

IdValidated == req.op \in {"validateFunctionId", "sanitizeNodeId"}

\* The reason says 'invalid characters'.
SaysInvalidCharacters(msg) ==
    msg \in {"Function ID contains invalid characters", "Node ID contains invalid characters"}

\* The reason says 'too long'.
SaysTooLong(msg) == msg \in {"Function ID too long", "Node ID too long"}

\* C11 (as claimed): an input with a character outside the class is rejected
\* by the identifier validators with an 'invalid characters' reason.
C11_RejectsOutsideClass ==
    (IdValidated /\ ~AllInClass(req.raw))
    => ~resp.valid /\ SaysInvalidCharacters(resp.error)

\* The id as the validator tests it: trimmed, and for sanitizeNodeId
\* percent-decoded first (the input itself when it does not decode).
TestedId ==
    IF req.op = "sanitizeNodeId" THEN DecodedId(req.raw) ELSE Trim(req.raw)

\* C11 (amended): when the trimmed id (for sanitizeNodeId the decoded and
\* trimmed id) is not empty, is at most MAX_ID_LENGTH long and holds a
\* character outside the class (for sanitizeNodeId one that is no control
\* character, as those are removed), the validator rejects the input with
\* an 'invalid characters' reason.
C11_RejectsAfterNormalising ==
    (/\ IdValidated
     /\ TestedId # <<>>
     /\ Len(TestedId) <= MAX_ID_LENGTH
     /\ \E i \in 1..Len(TestedId) :
           /\ TestedId[i] \notin AllowedClass
           /\ req.op = "sanitizeNodeId" => ~IsControl(TestedId[i]))
    => ~resp.valid /\ SaysInvalidCharacters(resp.error)

\* sanitizeNodeId applied to an id with a blank before and a control
\* character after a character outside the class.
C11_Witness ==
    /\ req.op = "sanitizeNodeId"
    /\ req.raw = <<ch.space, ch.lt, ch.soh>>
    /\ ~resp.valid
    /\ SaysInvalidCharacters(resp.error)

\* C12 (as claimed): sanitizeNodeId accepts every text of class characters
\* of length at most 500 unchanged, and rejects every such text of length
\* 501 or more as too long.
C12_AcceptsUpToCeiling ==
    (req.op = "sanitizeNodeId" /\ AllInClass(req.raw))
    => /\ Len(req.raw) <= 500 => resp.valid /\ resp.sanitized = req.raw
       /\ Len(req.raw) >= 501 => ~resp.valid /\ SaysTooLong(resp.error)

\* C12 (amended): sanitizeNodeId accepts every non-empty text of class
\* characters of length at most 500 unchanged, and rejects every such text
\* of length 501 or more as too long.
C12_AcceptsNonEmptyUpToCeiling ==
    (req.op = "sanitizeNodeId" /\ AllInClass(req.raw) /\ req.raw # <<>>)
    => /\ Len(req.raw) <= 500 => resp.valid /\ resp.sanitized = req.raw
       /\ Len(req.raw) >= 501 => ~resp.valid /\ SaysTooLong(resp.error)

\* sanitizeNodeId applied to a text of exactly 500 class characters.
C12_Witness ==
    /\ req.op = "sanitizeNodeId"
    /\ AllInClass(req.raw)
    /\ Len(req.raw) = 500
    /\ resp.valid
    /\ resp.sanitized = req.raw

\* C13 (as claimed): validateFunctionId and sanitizeNodeId accept every id
\* in the format of Go function ids, those of methods with a pointer
\* receiver ('*') and the external ones included.
C13_GoIdsAccepted ==
    (IdValidated /\ req.raw \in GoIds) => resp.valid /\ resp.error = ""

\* C18 (as claimed): for every identifier that sanitizeNodeId accepts, its
\* percent-encoded form is accepted with the identifier itself as sanitized.
C18_RoundTrip ==
    (req.op = "sanitizeEncoded" /\ req.valid)
    => resp.valid /\ resp.sanitized = req.raw

\* C18 (amended): for every identifier that sanitizeNodeId accepts
\* unchanged, its percent-encoded form is accepted with the identifier
\* itself as sanitized.
C18_RoundTripOfCanonical ==
    (req.op = "sanitizeEncoded" /\ req.valid /\ req.id = req.raw)
    => resp.valid /\ resp.sanitized = req.raw

\* The round trip of an id with characters that encodeURIComponent escapes.
C18_Witness ==
    /\ req.op = "sanitizeEncoded"
    /\ req.valid
    /\ req.id = req.raw
    /\ \E i, j \in 1..Len(req.raw) : req.raw[i] = ch.colon /\ req.raw[j] = ch.at
    /\ resp.valid
    /\ resp.sanitized = req.raw

QueryValidated == req.op = "validateSearchQuery" /\ req.type = "string"

\* The first MAX_QUERY_LENGTH characters of the trimmed query.
KeptQuery ==
    IF Len(Trim(req.raw)) > MAX_QUERY_LENGTH
    THEN SubSeq(Trim(req.raw), 1, MAX_QUERY_LENGTH)
    ELSE Trim(req.raw)

\* How many characters of the text are in the set.
Count(text, set) == Cardinality({i \in 1..Len(text) : text[i] \in set})

Wildcards == {ch.percent, ch.underscore}

\* The control characters validateSearchQuery removes.
RemovedControls == (0..8) \cup (11..12) \cup (14..31) \cup {127}

\* C14 (as claimed): a query whose trimmed length exceeds 200 is valid and
\* its sanitized text has length exactly 200.
C14_TruncatedTo200 ==
    (QueryValidated /\ Len(Trim(req.raw)) > 200)
    => resp.valid /\ Len(resp.sanitized) = 200

\* C14 (amended): a query whose trimmed length exceeds 200 is valid and is
\* cut to its first 200 characters before it is cleaned: the length of the
\* sanitized text is 200, less the control characters removed from those
\* 200, plus one for each % and _ among them (exactly 200 when they hold
\* none of these).
C14_TruncatedThenCleaned ==
    (QueryValidated /\ Len(Trim(req.raw)) > 200)
    => /\ resp.valid
       /\ Len(KeptQuery) = 200
       /\ Len(resp.sanitized)
          = 200 - Count(KeptQuery, RemovedControls) + Count(KeptQuery, Wildcards)

\* A query of more than 200 characters with a % among the first 200.
C14_Witness ==
    /\ QueryValidated
    /\ Len(Trim(req.raw)) > 200
    /\ Count(KeptQuery, Wildcards) = 1
    /\ Count(KeptQuery, RemovedControls) = 0
    /\ resp.valid
    /\ Len(resp.sanitized) = 201

\* The characters of the text that are no control characters (C0 and DEL).
Visible(text) == SelectSeq(text, LAMBDA c : c \notin (0..31) \cup {127})

\* out is text with one backslash put before each % and each _, and
\* nothing else changed.
IsEscapeOf(out, text) ==
    LET before(i) == Count(SubSeq(text, 1, i), Wildcards)
    IN  /\ Len(out) = Len(text) + before(Len(text))
        /\ \A i \in 1..Len(text) :
              /\ out[i + before(i)] = text[i]
              /\ text[i] \in Wildcards => out[i + before(i) - 1] = ch.backslash

\* C15 (as claimed): for every string, the sanitized text is the trimmed
\* input with one backslash put before each % and each _, every other
\* character that is no control character unchanged and in its order.
C15_EscapesTrimmedInput ==
    QueryValidated
    => /\ resp.valid
       /\ IsEscapeOf(Visible(resp.sanitized), Visible(Trim(req.raw)))

\* C15 (amended): for every string, the sanitized text is the trimmed input,
\* cut to its first 200 characters when it is longer, with one backslash put
\* before each % and each _, every other character that is no control
\* character unchanged and in its order.
C15_EscapesKeptInput ==
    QueryValidated
    => /\ resp.valid
       /\ IsEscapeOf(Visible(resp.sanitized), Visible(KeptQuery))

\* A query with a %, a control character and a _.
C15_Witness ==
    /\ QueryValidated
    /\ req.raw = <<ch.percent, ch.soh, ch.underscore>>
    /\ resp.sanitized = <<ch.backslash, ch.percent, ch.backslash, ch.underscore>>

\* C24: for every input, sanitizeNodeId either answers valid = false with
\* the sanitized text '' or answers valid = true with a sanitized text that
\* is not empty, is at most MAX_ID_LENGTH long, holds no control character
\* and holds only characters of the class A-Z a-z 0-9 : _ / @ . -
C24_NoPartialSanitization ==
    req.op \in {"sanitizeNodeId", "sanitizeEncoded"}
    => \/ ~resp.valid /\ resp.sanitized = <<>>
       \/ /\ resp.valid
          /\ resp.sanitized # <<>>
          /\ Len(resp.sanitized) <= MAX_ID_LENGTH
          /\ \A i \in 1..Len(resp.sanitized) : ~IsControl(resp.sanitized[i])
          /\ AllInClass(resp.sanitized)

\* An id with a control character between two letters is accepted without
\* the control character.
C24_Witness ==
    /\ req.op = "sanitizeNodeId"
    /\ req.raw = <<ch.a, ch.soh, ch.a>>
    /\ resp.valid
    /\ resp.sanitized = <<ch.a, ch.a>>

\* The requested node is no external one, has a file that the store holds,
\* and its line is past the last line of the file.
LinePastEnd ==
    /\ req.op = "source"
    /\ req.valid
    /\ ~IsExternalRequest
    /\ HasSource
    /\ RequestedNode[1].line # NULL
    /\ RequestedNode[1].line[1] > Len(FileLines)

\* C25: for a node whose file and sources row exist and whose line is
\* greater than the number of lines of the file, GetSource answers without
\* an error, with the empty code, start_line the stored line and end_line
\* the stored end_line or, without one, the stored line: neither is brought
\* down to the length of the file.
C25_LinePastEnd ==
    LinePastEnd
    => /\ resp.status = 200
       /\ resp.error = ""
       /\ resp.body # NULL
       /\ resp.body[1].code = <<>>
       /\ resp.body[1].start_line = RequestedNode[1].line[1]
       /\ resp.body[1].end_line =
             IF TruthyNum(RequestedNode[1].end_line)
             THEN RequestedNode[1].end_line[1] ELSE RequestedNode[1].line[1]

\* A node at line 3 without end_line, in a file of two lines.
C25_Witness ==
    /\ LinePastEnd
    /\ Len(FileLines) = 2
    /\ RequestedNode[1].end_line = NULL
    /\ resp.status = 200
    /\ resp.body[1].code = <<>>
    /\ resp.body[1].start_line = 3
    /\ resp.body[1].end_line = 3

\* The parameter q of a search request.
SearchParameter(request) ==
    IF request.type = "undefined" THEN JsUndefined
    ELSE [type |-> request.type, text |-> request.raw]

\* The replies the handler of a request can give when it runs alone on the
\* store.
RepliesTo(request) ==
    CASE request.op = "search" ->
           {SearchReply(validation).reply :
               validation \in {validateSearchQuery(OrEmpty(SearchParameter(request)))}}
      [] request.op = "graph" ->
           UNION {{GraphReply(validation, rows).reply :
                      rows \in neighborhoodStmt(validation.sanitized)} :
                  validation \in {sanitizeNodeId(request.raw)}}
      [] request.op = "source" ->
           {SourceReply(validation).reply : validation \in {sanitizeNodeId(request.raw)}}

StatementsRun == {issued[i].stmt : i \in 1..Len(issued)}

\* C28: every successful reply of GetNeighborhood has a nodes list that is
\* not empty and whose first entry is the target, a function node of the
\* store; the reply of the empty-node-set check is never sent, edgesStmt
\* is always run.
C28_TargetPresent ==
    GraphOk
    => /\ resp.body.nodes # <<>>
       /\ resp.body.nodes[1].id = TargetId
       /\ IsFunction(TargetId)
       /\ "edgesStmt" \in StatementsRun

\* A target with a neighbour: the target comes first, the neighbour second.
C28_Witness ==
    /\ GraphOk
    /\ Len(resp.body.nodes) > 1
    /\ resp.body.nodes[2].id # TargetId
    /\ resp.body.nodes[1].id = TargetId
    /\ "edgesStmt" \in StatementsRun

(***************************************************************************)
(* The client: the App component                                           *)
(***************************************************************************)

\* MAX_GRAPH_NODES of the client, scaled down from 60.
MAX_GRAPH_NODES == 2

\* Most requests awaited at a time.
MaxInFlight == 2

\* function appReducer(state, action)
appReducer(state, action) ==
    CASE action.type = "SET_SEARCH_QUERY" -> [state EXCEPT !.searchQuery = action.payload]
      [] action.type = "SET_FUNCTIONS" -> [state EXCEPT !.functions = action.payload]
      [] action.type = "SET_SELECTED_FUNCTION" ->
           [state EXCEPT !.selectedFunctionId = action.payload]
      [] action.type = "SET_GRAPH_DATA" -> [state EXCEPT !.graphData = action.payload]
      [] action.type = "SET_SOURCE_DATA" -> [state EXCEPT !.sourceData = action.payload]
      [] action.type = "SET_LOADING" ->
           [state EXCEPT !.loading[action.payload.key] = action.payload.value]
      [] action.type = "SET_ERROR" ->
           [state EXCEPT !.errors[action.payload.key] = action.payload.value]
      [] action.type = "CLEAR_GRAPH" ->
           [state EXCEPT !.graphData = NULL, !.sourceData = NULL, !.errors.graph = NULL]
      [] action.type = "CLEAR_SOURCE" ->
           [state EXCEPT !.sourceData = NULL, !.errors.source = NULL]
      [] OTHER -> state

\* The state after the dispatches of one handler run, in their order.
RECURSIVE Dispatched(_, _)
Dispatched(state, actions) ==
    IF actions = <<>> THEN state
    ELSE Dispatched(appReducer(state, Head(actions)), Tail(actions))

Set(type, payload) == [type |-> type, payload |-> payload]

SetLoading(key, value) ==
    [type |-> "SET_LOADING", payload |-> [key |-> key, value |-> value]]

SetError(key, value) ==
    [type |-> "SET_ERROR", payload |-> [key |-> key, value |-> value]]

\* A request awaited by a handler: its endpoint, its parameter, the abort
\* controller whose signal it was given, and whether that was aborted.
Call(kind, arg, controller) ==
    [kind |-> kind, arg |-> arg, controller |-> controller, aborted |-> FALSE]

\* new AbortController(): one that no awaited request holds.
NewController ==
    CHOOSE k \in 1..(Len(calls) + 1) :
        \A i \in 1..Len(calls) : calls[i].controller # Some(k)

\* controller.abort() on the controller a ref holds, if it holds one.
Aborted(ref) ==
    [i \in 1..Len(calls) |->
        IF ref # NULL /\ calls[i].controller = ref
        THEN [calls[i] EXCEPT !.aborted = TRUE] ELSE calls[i]]

\* The promise of an aborted request is rejected inside abort(); the rest of
\* its handler runs as a microtask, before any other event is handled.
NoMicrotask == \A i \in 1..Len(calls) : ~calls[i].aborted

\* An event the browser may deliver to a handler of App.
Ready == mounted /\ NoMicrotask

\* Cleared that clears no timer.
Cleared_Never(pending, ref) == pending

\* The pending timers after if (ref.current) clearTimeout(ref.current)
Cleared(pending, ref) == {t \in pending : ref = NULL \/ t.id # ref[1]}

\* The id setTimeout returns: one that no pending timer has.
NewTimer(pending) ==
    CHOOSE k \in 1..(Cardinality(pending) + 1) : \A t \in pending : t.id # k

\* handleSearch(query) up to its await: the state after its dispatches and
\* the requests awaited.
handleSearch(state, awaited, query) ==
    IF Trim(query) = <<>>
    THEN [app |-> Dispatched(state, <<Set("SET_FUNCTIONS", <<>>)>>), calls |-> awaited]
    ELSE [app |-> Dispatched(state, <<SetLoading("functions", TRUE),
                                      SetError("functions", NULL)>>),
          calls |-> Append(awaited, Call("search", query, NULL))]

\* handleSearchChange(e) with e.target.value = query
HandleSearchChange(query) ==
    /\ Ready
    /\ query # app.searchQuery
    /\ app' = Dispatched(app, <<Set("SET_SEARCH_QUERY", query)>>)
    /\ \E kept \in {Cleared(timers, refs.debounceTimer)} :
          \E id \in {NewTimer(kept)} :
             /\ timers' = kept \cup {[id |-> id, query |-> query]}
             /\ refs' = [refs EXCEPT !.debounceTimer = Some(id)]
    /\ UNCHANGED <<calls, surface, mounted>>
    /\ UNCHANGED server

\* A timer of handleSearchChange fires after DEBOUNCE_DELAY: handleSearch(query)
DebounceFire ==
    /\ Ready
    /\ \E t \in timers :
          /\ Trim(t.query) # <<>> => Len(calls) < MaxInFlight
          /\ timers' = timers \ {t}
          /\ \E out \in {handleSearch(app, calls, t.query)} :
                /\ app' = out.app
                /\ calls' = out.calls
    /\ UNCHANGED <<refs, surface, mounted>>
    /\ UNCHANGED server

\* handleFunctionClick(functionId) up to its await; the buttons are those of
\* state.functions.  With graphData null App renders no Graph.
HandleFunctionClick(functionId) ==
    /\ Ready
    /\ \E i \in 1..Len(app.functions) : app.functions[i].id = functionId
    /\ Len(calls) < MaxInFlight
    /\ \E controller \in {Some(NewController)} :
          /\ calls' = Append(Aborted(refs.graphAbortController),
                             Call("graph", functionId, controller))
          /\ refs' = [refs EXCEPT !.graphAbortController = controller]
    /\ app' = Dispatched(app, <<Set("SET_SELECTED_FUNCTION", Some(functionId)),
                                [type |-> "CLEAR_GRAPH"],
                                SetLoading("graph", TRUE)>>)
    /\ surface' = NoSurface
    /\ UNCHANGED <<timers, mounted>>
    /\ UNCHANGED server

\* handleNodeClick(nodeId) up to its await; cytoscape's tap handler passes
\* the id of a node that is among the elements.
HandleNodeClick(nodeId) ==
    /\ Ready
    /\ nodeId # <<>>
    /\ \E i \in 1..Len(surface.nodes) : surface.nodes[i].id = nodeId
    /\ Len(calls) < MaxInFlight
    /\ \E controller \in {Some(NewController)} :
          /\ calls' = Append(Aborted(refs.sourceAbortController),
                             Call("source", nodeId, controller))
          /\ refs' = [refs EXCEPT !.sourceAbortController = controller]
    /\ app' = Dispatched(app, <<[type |-> "CLEAR_SOURCE"], SetLoading("source", TRUE)>>)
    /\ UNCHANGED <<timers, surface, mounted>>
    /\ UNCHANGED server

\* What axios.get settles with besides a reply of the server: an error
\* without a response (the server was not reached), and the cancellation
\* that abort() on the request's signal raises.
NoResponse == [status |-> 0, error |-> ""]

Canceled == [status |-> -1, error |-> ""]

\* The request of a call as the server's handler receives it: axios encodes
\* the parameter and the server's query parser decodes it again.
Received(call) == [op |-> call.kind, type |-> "string", raw |-> call.arg]

\* What the await of a call can settle with.
Outcomes(call) ==
    IF call.aborted THEN {Canceled} ELSE RepliesTo(Received(call)) \cup {NoResponse}

\* text || fallback
OrText(text, fallback) == IF text = "" THEN fallback ELSE text

\* handleSearch after its await: try, catch and finally
SearchSettled(state, outcome) ==
    IF outcome.status = 200
    THEN Dispatched(state, <<Set("SET_FUNCTIONS", outcome.rows),
                             SetLoading("functions", FALSE)>>)
    ELSE Dispatched(state, <<SetError("functions",
                                      Some("Failed to fetch functions. Please try again.")),
                             Set("SET_FUNCTIONS", <<>>),
                             SetLoading("functions", FALSE)>>)

\* handleFunctionClick after its await: try, catch and finally.  A
\* cancellation returns from catch, and finally runs all the same.
GraphSettled(state, outcome) ==
    IF outcome.status = 200
    THEN Dispatched(state, <<Set("SET_GRAPH_DATA", Some(outcome.body)),
                             SetLoading("graph", FALSE)>>)
    ELSE IF outcome = Canceled
    THEN Dispatched(state, <<SetLoading("graph", FALSE)>>)
    ELSE Dispatched(state,
                    <<SetError("graph",
                               Some(OrText(outcome.error,
                                           "Failed to fetch graph. Please try again."))),
                      SetLoading("graph", FALSE)>>)

\* The message handleNodeClick shows for an error; of a 404 reply the
\* model keeps the error text.
SourceErrorText(outcome) ==
    IF outcome.status = 404
    THEN OrText(outcome.error, "Source code not found for this node.")
    ELSE "Failed to fetch source code. Please try again."

\* handleNodeClick after its await: try, catch and finally
SourceSettled(state, outcome) ==
    IF outcome.status = 200
    THEN Dispatched(state, <<Set("SET_SOURCE_DATA", outcome.body),
                             SetLoading("source", FALSE)>>)
    ELSE IF outcome = Canceled
    THEN Dispatched(state, <<SetLoading("source", FALSE)>>)
    ELSE Dispatched(state, <<SetError("source", Some(SourceErrorText(outcome))),
                             SetLoading("source", FALSE)>>)

\* An awaited request may settle: at once when it was aborted, else when
\* the browser delivers the reply.
MaySettle(i, kind) ==
    /\ mounted
    /\ calls[i].kind = kind
    /\ calls[i].aborted \/ NoMicrotask

\* The request of handleSearch settles.
FunctionsResponse ==
    /\ \E i \in 1..Len(calls) :
          /\ MaySettle(i, "search")
          /\ \E outcome \in Outcomes(calls[i]) : app' = SearchSettled(app, outcome)
          /\ calls' = RemoveAt(calls, i)
    /\ UNCHANGED <<refs, timers, surface, mounted>>
    /\ UNCHANGED server

\* The request of handleFunctionClick settles.  App renders Graph with the
\* new graphData, whose effect sets the timer of its update.
GraphResponse ==
    /\ \E i \in 1..Len(calls) :
          /\ MaySettle(i, "graph")
          /\ \E outcome \in Outcomes(calls[i]) :
                /\ app' = GraphSettled(app, outcome)
                /\ surface' = IF outcome.status = 200
                              THEN [surface EXCEPT !.shown = TRUE, !.pending = TRUE]
                              ELSE surface
          /\ calls' = RemoveAt(calls, i)
    /\ refs' = [refs EXCEPT !.graphAbortController = NULL]
    /\ UNCHANGED <<timers, mounted>>
    /\ UNCHANGED server

\* The request of handleNodeClick settles.
SourceResponse ==
    /\ \E i \in 1..Len(calls) :
          /\ MaySettle(i, "source")
          /\ \E outcome \in Outcomes(calls[i]) : app' = SourceSettled(app, outcome)
          /\ calls' = RemoveAt(calls, i)
    /\ refs' = [refs EXCEPT !.sourceAbortController = NULL]
    /\ UNCHANGED <<timers, surface, mounted>>
    /\ UNCHANGED server

(***************************************************************************)
(* The client: the Graph component                                         *)
(***************************************************************************)

\* graphData.nodes.slice(0, MAX_GRAPH_NODES)
limitedNodes(graphData) == JsSlice(graphData.nodes, 0, MAX_GRAPH_NODES)

\* limitedEdges that keeps every edge of the response.
limitedEdges_Unfiltered(graphData, shownNodes) == graphData.edges

\* graphData.edges.filter(e => nodeIds.has(e.data.source) && nodeIds.has(e.data.target))
limitedEdges(graphData, shownNodes) ==
    SelectSeq(graphData.edges,
              LAMBDA e : /\ e.source \in {shownNodes[i].id : i \in 1..Len(shownNodes)}
                         /\ e.target \in {shownNodes[i].id : i \in 1..Len(shownNodes)})

\* The elements after the update: the old ones removed, and the limited
\* nodes and edges given to cy.add when there is a node.
Elements(shownNodes, shownEdges) ==
    [shown |-> TRUE, pending |-> FALSE,
     nodes |-> shownNodes,
     edges |-> IF shownNodes = <<>> THEN <<>> ELSE shownEdges]

\* The timer of Graph's graphData effect fires.
RenderGraph ==
    /\ Ready
    /\ surface.pending
    /\ \E shownNodes \in {limitedNodes(app.graphData[1])} :
          surface' = Elements(shownNodes, limitedEdges(app.graphData[1], shownNodes))
    /\ UNCHANGED <<app, refs, timers, calls, mounted>>
    /\ UNCHANGED server

\* App is unmounted: the cleanup of its effect clears the debounce timer,
\* and Graph's cleanups clear its timer and destroy the cytoscape instance.
\* The state of an unmounted component is no longer observed.
Unmount ==
    /\ Ready
    /\ timers' = Cleared(timers, refs.debounceTimer)
    /\ surface' = NoSurface
    /\ mounted' = FALSE
    /\ UNCHANGED <<app, refs, calls>>
    /\ UNCHANGED server

(***************************************************************************)
(* The client against a server with a small store                          *)
(***************************************************************************)

\* The texts typed into the search input.
SearchInputs == {<<>>, NameX, NameY}

\* Three functions: a named x with a file, b and c named y; b calls a and
\* a calls c.
InitClient ==
    /\ nodes = <<[NodeRow(IdA, "function", Some(NameX)) EXCEPT
                     !.file = Some(FileM), !.line = Some(1)],
                 NodeRow(IdB, "function", Some(NameY)),
                 NodeRow(IdC, "function", Some(NameY))>>
    /\ edges = <<EdgeRow(IdB, IdA, "call"), EdgeRow(IdA, IdC, "call")>>
    /\ sources = <<[file |-> FileM, content |-> <<ch.x>>]>>
    /\ req = NoRequest
    /\ resp = NoReply
    /\ issued = <<>>
    /\ ClientAtRest

NextClient ==
    \/ \E query \in SearchInputs : HandleSearchChange(query)
    \/ DebounceFire
    \/ FunctionsResponse
    \/ \E functionId \in {IdA, IdB, IdC} : HandleFunctionClick(functionId)
    \/ GraphResponse
    \/ RenderGraph
    \/ \E nodeId \in {IdA, IdB, IdC} : HandleNodeClick(nodeId)
    \/ SourceResponse
    \/ Unmount

SpecClient == InitClient /\ [][NextClient]_vars

(***************************************************************************)
(* Properties of the client                                                *)
(***************************************************************************)

\* The graphs the server sends for a function id.
GraphsOf(functionId) ==
    {reply.body : reply \in {r \in RepliesTo([op |-> "graph", type |-> "string",
                                              raw |-> functionId]) : r.status = 200}}

\* C21 (as claimed): after any sequence of function clicks and any order of
\* response arrivals, the graphData of the state is never the response of
\* a function other than the one clicked last (selectedFunctionId).
C21_GraphOfSelected ==
    app.graphData # NULL
    => /\ app.selectedFunctionId # NULL
       /\ app.graphData[1] \in GraphsOf(app.selectedFunctionId[1])

\* The indexes of the awaited requests of a kind.
Awaited(kind) == {i \in 1..Len(calls) : calls[i].kind = kind}

\* The request of a kind that was issued last, among those awaited.
LastAwaited(kind) ==
    calls[CHOOSE i \in Awaited(kind) : \A j \in Awaited(kind) : j <= i]

\* The graph request of the last function click is awaited: since that
\* click neither a graph nor an error was stored.
LastClickAwaited ==
    /\ mounted
    /\ app.selectedFunctionId # NULL
    /\ app.graphData = NULL
    /\ app.errors.graph = NULL

\* C29 (as claimed): whenever the graph request of the function clicked last
\* is still awaited, loading.graph is true and the stored abort controller
\* is the controller of that request.
C29_LoadingWhileAwaited ==
    LastClickAwaited
    => /\ Awaited("graph") # {}
       /\ LastAwaited("graph").arg = app.selectedFunctionId[1]
       /\ app.loading.graph
       /\ refs.graphAbortController = LastAwaited("graph").controller

\* The lists handleSearch can end with for a query: none for a blank one,
\* else the rows the server sends, or none when the request fails.
ListsOf(query) ==
    IF Trim(query) = <<>> THEN {<<>>}
    ELSE {<<>>} \cup {reply.rows : reply \in {r \in RepliesTo([op |-> "search",
                                                               type |-> "string",
                                                               raw |-> query]) :
                                                 r.status = 200}}

\* Every change of the input has led to its search, and every search has
\* settled: the search issued last is that of the input's value.
SearchesSettled == mounted /\ timers = {} /\ Awaited("search") = {}

\* C22 (as claimed): an outdated search response is never applied after a
\* newer search was issued: once the searches have settled, the functions
\* list is the result of the search issued last.
C22_ListOfLastSearch ==
    SearchesSettled => app.functions \in ListsOf(app.searchQuery)

\* C30 (as claimed): once a function is clicked, sourceData stays null until
\* a node of the newly loaded graph is clicked: while no graph is loaded,
\* no source is stored.
C30_NoSourceWithoutGraph ==
    app.graphData = NULL => app.sourceData = NULL

\* The number of search requests awaited.
Searches(awaited) == Len(SelectSeq(awaited, LAMBDA c : c.kind = "search"))

\* C27: each change of the search input cancels the pending debounce timer
\* before it starts a new one: at most one timer is pending at any time, a
\* pending timer carries the latest value of the input, and handleSearch
\* runs only when a timer fires, with the latest value of the input.
C27_Debounce ==
    [][/\ Cardinality(timers') <= 1
       /\ \A t \in timers' : t.query = app'.searchQuery
       /\ \A t \in timers \ timers' :
             (mounted' /\ app'.searchQuery = app.searchQuery)
             => /\ t.query = app.searchQuery
                /\ app' = handleSearch(app, calls, app.searchQuery).app
                /\ calls' = handleSearch(app, calls, app.searchQuery).calls
       /\ Searches(calls') > Searches(calls)
          => /\ timers' # timers
             /\ timers' \subseteq timers
             /\ calls'[Len(calls')].arg = app.searchQuery]_vars

\* The search for x is awaited, and after a further change of the input to
\* y the timer of that change is the one pending.
C27_Witness ==
    /\ \E i \in Awaited("search") : calls[i].arg = NameX
    /\ app.searchQuery = NameY
    /\ \E t \in timers : timers = {t} /\ t.query = NameY
    /\ refs.debounceTimer # NULL

\* The ids of the nodes among the elements.
ShownIds == {surface.nodes[i].id : i \in 1..Len(surface.nodes)}

\* C23: for every graph response, the Graph component adds at most
\* MAX_GRAPH_NODES nodes to the elements, the first ones of the response,
\* and of the response's edges those, and only those, whose source and
\* target are both among the added nodes.
C23_RenderCap ==
    (surface.shown /\ ~surface.pending)
    => /\ app.graphData # NULL
       /\ Len(surface.nodes) <= MAX_GRAPH_NODES
       /\ Len(surface.nodes) <= Len(app.graphData[1].nodes)
       /\ Len(surface.nodes) < MAX_GRAPH_NODES
          => Len(surface.nodes) = Len(app.graphData[1].nodes)
       /\ \A i \in 1..Len(surface.nodes) : surface.nodes[i] = app.graphData[1].nodes[i]
       /\ \A i \in 1..Len(surface.edges) :
             /\ surface.edges[i].source \in ShownIds
             /\ surface.edges[i].target \in ShownIds
       /\ Range(surface.edges)
          = {e \in Range(app.graphData[1].edges) :
                e.source \in ShownIds /\ e.target \in ShownIds}

\* The graph of a with its caller b and its callee c is drawn: of the three
\* nodes the first two, and of the two edges the one between them.
C23_Witness ==
    /\ surface.shown
    /\ ~surface.pending
    /\ Len(app.graphData[1].nodes) = 3
    /\ Len(app.graphData[1].edges) = 2
    /\ Len(surface.nodes) = 2
    /\ Len(surface.edges) = 1

====
